---- MODULE Spec2Model ----
(***************************************************************************)
(* Model of the AI code review action: the GitHub Action entry point       *)
(* (src/src/index.ts) and the review agent with its LangGraph pipeline     *)
(* (src/src/ai-review-agent.ts).                                           *)
(*                                                                         *)
(* Conventions                                                             *)
(*  - an optional value (a TypeScript `T | undefined`) is a sequence of    *)
(*    length at most one: <<>> is undefined, <<v>> is the value v;         *)
(*  - a file name or a glob pattern is a tuple of one-character strings;   *)
(*  - a JavaScript number is an integer count of halves (Num(7) is 7,      *)
(*    Num(7) + 1 is 7.5), which keeps non-integer model scores in reach;   *)
(*  - messages are TLA+ strings, joined with \o as the template literals   *)
(*    of the source join them.                                             *)
(***************************************************************************)
EXTENDS Integers, Sequences, FiniteSets, TLC

(***************************************************************************)
(* Bounds                                                                  *)
(***************************************************************************)
\* longest changed-file list the PR source returns
MaxFiles == 2

(***************************************************************************)
(* Numbers and optional values                                             *)
(***************************************************************************)
Num(k) == 2 * k

IsInteger(n) == n % 2 = 0

\* Number.prototype.toString for the numbers of the model
NumToString(n) ==
    IF IsInteger(n) THEN ToString(n \div 2) ELSE ToString(n \div 2) \o ".5"

Undefined == <<>>

Some(v) == <<v>>

IsDefined(o) == o # <<>>

\* JavaScript truthiness of an optional string
TruthyStr(o) == o # <<>> /\ o[1] # ""

(***************************************************************************)
(* Glob matching of the agent (matchesPatterns, shouldIncludeFile)         *)
(***************************************************************************)
\* A compiled regular expression is a sequence of atoms:
\*   lit c    the character c
\*   any      `.`   one character
\*   anystar  `.*`  any run of characters
ReLit(c) == [k |-> "lit", c |-> c]

ReAny == [k |-> "any", c |-> ""]

ReAnyStar == [k |-> "anystar", c |-> ""]

\* pattern.replace(/\./g,'\\.').replace(/\*/g,'.*').replace(/\?/g,'.')
\* for patterns over letters, "/", ".", "*" and "?"
RECURSIVE globToRegex(_)
globToRegex(pattern) ==
    IF pattern = <<>> THEN <<>>
    ELSE LET c == Head(pattern)
             atom == CASE c = "*" -> ReAnyStar
                       [] c = "?" -> ReAny
                       [] OTHER   -> ReLit(c)
         IN  <<atom>> \o globToRegex(Tail(pattern))

\* new RegExp(`^${regexPattern}$`).test(s)
RECURSIVE regexTest(_, _)
regexTest(re, s) ==
    IF re = <<>> THEN s = <<>>
    ELSE LET h == Head(re) IN
         CASE h.k = "lit" ->
                s # <<>> /\ Head(s) = h.c /\ regexTest(Tail(re), Tail(s))
           [] h.k = "any" ->
                s # <<>> /\ regexTest(Tail(re), Tail(s))
           [] OTHER ->
                \/ regexTest(Tail(re), s)
                \/ s # <<>> /\ regexTest(re, Tail(s))

matchesPatterns(filename, patterns) ==
    \E i \in 1..Len(patterns) : regexTest(globToRegex(patterns[i]), filename)

EndsWith(s, suffix) ==
    /\ Len(s) >= Len(suffix)
    /\ SubSeq(s, Len(s) - Len(suffix) + 1, Len(s)) = suffix

\* the alternatives of /\.(js|jsx|ts|tsx|vue|svelte|php|blade\.php|py|json|yml)$/
DefaultExtensions ==
    { <<"j","s">>, <<"j","s","x">>, <<"t","s">>, <<"t","s","x">>,
      <<"v","u","e">>, <<"s","v","e","l","t","e">>, <<"p","h","p">>,
      <<"b","l","a","d","e",".","p","h","p">>, <<"p","y">>,
      <<"j","s","o","n">>, <<"y","m","l">> }

matchesDefaultExtensions(filename) ==
    \E ext \in DefaultExtensions : EndsWith(filename, <<".">> \o ext)

\* the decision with the include list consulted before the exclude list
shouldIncludeFileIncludeFirst(filename, filePatterns, excludePatterns) ==
    IF Len(filePatterns) > 0 /\ matchesPatterns(filename, filePatterns)
    THEN TRUE
    ELSE IF Len(excludePatterns) > 0
            /\ matchesPatterns(filename, excludePatterns)
         THEN FALSE
         ELSE Len(filePatterns) = 0 /\ matchesDefaultExtensions(filename)

shouldIncludeFile(filename, filePatterns, excludePatterns) ==
    IF Len(excludePatterns) > 0 /\ matchesPatterns(filename, excludePatterns)
    THEN FALSE
    ELSE IF Len(filePatterns) > 0
         THEN matchesPatterns(filename, filePatterns)
         ELSE matchesDefaultExtensions(filename)

\* the superseded predicate, kept commented out in the source: a renamed
\* file is subject to the patterns like an added or modified one
keepFilePatternsOnRenamed(file, filePatterns, excludePatterns) ==
    IF file.status \notin {"added", "modified", "renamed"}
    THEN FALSE
    ELSE shouldIncludeFile(file.filename, filePatterns, excludePatterns)

\* the predicate of state.prData.files.filter(...) in filterRelevantFilesNode
keepFile(file, filePatterns, excludePatterns) ==
    IF file.status \notin {"added", "modified"}
    THEN file.status = "renamed"
    ELSE shouldIncludeFile(file.filename, filePatterns, excludePatterns)

\* a filter that collects the kept elements in reverse order
RECURSIVE filterFilesReversed(_, _, _)
filterFilesReversed(files, filePatterns, excludePatterns) ==
    IF files = <<>> THEN <<>>
    ELSE filterFilesReversed(Tail(files), filePatterns, excludePatterns)
         \o (IF keepFile(Head(files), filePatterns, excludePatterns)
             THEN <<Head(files)>> ELSE <<>>)

\* Array.prototype.filter: the kept elements in input order
RECURSIVE filterFiles(_, _, _)
filterFiles(files, filePatterns, excludePatterns) ==
    IF files = <<>> THEN <<>>
    ELSE (IF keepFile(Head(files), filePatterns, excludePatterns)
          THEN <<Head(files)>> ELSE <<>>)
         \o filterFiles(Tail(files), filePatterns, excludePatterns)

(***************************************************************************)
(* JSON values and the zod schemas (ReviewFindingSchema, AIReviewSchema)   *)
(***************************************************************************)
\* A JSON value is tagged with its type; a key that the object does not
\* carry is a missing value: JMissing where an array is expected,
\* JMissingNumber and JMissingString where a number or a string is (a key
\* keeps one type of payload, so that any two values of it compare).
JNum(n) == [ty |-> "number", v |-> n]

JStr(s) == [ty |-> "string", v |-> s]

JArr(a) == [ty |-> "array", v |-> a]

JObj(o) == [ty |-> "object", v |-> o]

JMissing == [ty |-> "missing", v |-> <<>>]

JMissingNumber == [ty |-> "missing", v |-> 0]

JMissingString == [ty |-> "missing", v |-> ""]

Categories == {"QUALITY", "SECURITY", "FUNCTIONALITY", "MAINTAINABILITY"}

Severities == {"HIGH", "MEDIUM", "LOW"}

Recommendations == {"POSITIVE", "NEGATIVE", "NEEDS_CHANGES"}

IsEnum(j, values) == j.ty = "string" /\ j.v \in values

IsString(j) == j.ty = "string"

IsStringArray(j) ==
    j.ty = "array" /\ \A i \in 1..Len(j.v) : IsString(j.v[i])

\* the score checked as z.number() alone, without min(1) and max(10)
IsScoreUnbounded(j) == j.ty = "number"

\* the score checked as z.number().int().min(1).max(10)
IsScoreInteger(j) ==
    j.ty = "number" /\ IsInteger(j.v) /\ j.v >= Num(1) /\ j.v <= Num(10)

\* z.number().min(1).max(10)
IsScore(j) == j.ty = "number" /\ j.v >= Num(1) /\ j.v <= Num(10)

\* ReviewFindingSchema.parse succeeds on j
ReviewFindingSchemaAccepts(j) ==
    /\ j.ty = "object"
    /\ IsEnum(j.v.category, Categories)
    /\ IsEnum(j.v.severity, Severities)
    /\ IsString(j.v.file)
    /\ j.v.line.ty \in {"missing", "number"}
    /\ IsString(j.v.issue)
    /\ IsString(j.v.suggestion)

\* the schema with recommendation: z.string() in place of the enum
AIReviewSchemaAcceptsAnyRecommendation(o) ==
    /\ IsScore(o.overall_score)
    /\ IsString(o.recommendation)
    /\ IsString(o.summary)
    /\ o.detailed_findings.ty = "array"
    /\ \A i \in 1..Len(o.detailed_findings.v) :
           ReviewFindingSchemaAccepts(o.detailed_findings.v[i])
    /\ IsStringArray(o.positive_aspects)
    /\ IsStringArray(o.areas_for_improvement)

\* AIReviewSchema.parse succeeds on the parsed object o
AIReviewSchemaAccepts(o) ==
    /\ IsScore(o.overall_score)
    /\ IsEnum(o.recommendation, Recommendations)
    /\ IsString(o.summary)
    /\ o.detailed_findings.ty = "array"
    /\ \A i \in 1..Len(o.detailed_findings.v) :
           ReviewFindingSchemaAccepts(o.detailed_findings.v[i])
    /\ IsStringArray(o.positive_aspects)
    /\ IsStringArray(o.areas_for_improvement)

\* the typed value ReviewFindingSchema.parse returns
FindingOf(j) ==
    [category   |-> j.v.category.v,
     severity   |-> j.v.severity.v,
     file       |-> j.v.file.v,
     line       |-> IF j.v.line.ty = "number" THEN Some(j.v.line.v)
                    ELSE Undefined,
     issue      |-> j.v.issue.v,
     suggestion |-> j.v.suggestion.v]

StringsOf(j) == [i \in 1..Len(j.v) |-> j.v[i].v]

\* the typed value AIReviewSchema.parse returns
ReviewOf(o) ==
    [overall_score         |-> o.overall_score.v,
     recommendation        |-> o.recommendation.v,
     summary               |-> o.summary.v,
     detailed_findings     |-> [i \in 1..Len(o.detailed_findings.v) |->
                                   FindingOf(o.detailed_findings.v[i])],
     positive_aspects      |-> StringsOf(o.positive_aspects),
     areas_for_improvement |-> StringsOf(o.areas_for_improvement)]

(***************************************************************************)
(* The model's text and parseAIResponse                                    *)
(***************************************************************************)
\* The text of a completion is a sequence of tokens:
\*   prose    text without braces
\*   lbrace   the character {
\*   rbrace   the character }
\*   members  the well-formed member list of one JSON object (nested
\*            objects and arrays included), carrying the object it denotes
NoMembers == [overall_score |-> JMissingNumber,
              recommendation |-> JMissingString,
              summary |-> JMissingString, detailed_findings |-> JMissing,
              positive_aspects |-> JMissing,
              areas_for_improvement |-> JMissing]

Prose == [t |-> "prose", v |-> NoMembers]

LBrace == [t |-> "lbrace", v |-> NoMembers]

RBrace == [t |-> "rbrace", v |-> NoMembers]

Members(o) == [t |-> "members", v |-> o]

Positions(txt, tok) == {i \in 1..Len(txt) : txt[i].t = tok}

Min(S) == CHOOSE m \in S : \A n \in S : m <= n

Max(S) == CHOOSE m \in S : \A n \in S : m >= n

\* the match anchored at the start of the text: /^\{[\s\S]*\}/
matchBracesAnchored(txt) ==
    IF txt = <<>> \/ txt[1].t # "lbrace" THEN Undefined
    ELSE LET rbs == {i \in Positions(txt, "rbrace") : i > 1}
         IN  IF rbs = {} THEN Undefined
             ELSE Some(SubSeq(txt, 1, Max(rbs)))

\* txt.match(/\{[\s\S]*\}/): the span from the first { to the last } after
\* it, Undefined when there is none
matchBraces(txt) ==
    LET lbs == Positions(txt, "lbrace") IN
    IF lbs = {} THEN Undefined
    ELSE LET first == Min(lbs)
             rbs == {i \in Positions(txt, "rbrace") : i > first}
         IN  IF rbs = {} THEN Undefined
             ELSE Some(SubSeq(txt, first, Max(rbs)))

\* JSON.parse: the object the span denotes, Undefined on a SyntaxError
jsonParse(span) ==
    IF Len(span) = 2 THEN Some(NoMembers)
    ELSE IF Len(span) = 3 /\ span[2].t = "members" THEN Some(span[2].v)
    ELSE Undefined

FallbackReview ==
    [overall_score         |-> Num(5),
     recommendation        |-> "NEEDS_CHANGES",
     summary               |-> "The AI did not return valid JSON. Manual review required.",
     detailed_findings     |-> <<>>,
     positive_aspects      |-> <<>>,
     areas_for_improvement |-> <<"Manual review required">>]

\* the parser without the brace extraction: JSON.parse(txt) on the whole text
parseAIResponseWholeText(txt) ==
    LET parsed == jsonParse(txt) IN
    IF ~IsDefined(parsed) THEN FallbackReview
    ELSE IF AIReviewSchemaAccepts(parsed[1]) THEN ReviewOf(parsed[1])
    ELSE FallbackReview

parseAIResponse(txt) ==
    LET match == matchBraces(txt) IN
    IF ~IsDefined(match) THEN FallbackReview
    ELSE LET parsed == jsonParse(match[1]) IN
         IF ~IsDefined(parsed) THEN FallbackReview
         ELSE IF AIReviewSchemaAccepts(parsed[1]) THEN ReviewOf(parsed[1])
         ELSE FallbackReview

(***************************************************************************)
(* formatReviewComment                                                     *)
(***************************************************************************)
\* The glyphs of the source are written [ok], [no], [warn], [pos], [find],
\* [areas], [bot]; the dash of a finding's heading is written "-" and the
\* backquotes around its file name are written as apostrophes.
RECURSIVE Join(_, _)
Join(strs, sep) ==
    IF strs = <<>> THEN ""
    ELSE IF Len(strs) = 1 THEN strs[1]
    ELSE strs[1] \o sep \o Join(Tail(strs), sep)

Bullets(strs) == [i \in 1..Len(strs) |-> "- " \o strs[i]]

formatFinding(f) ==
    "**" \o f.severity \o "** - '" \o f.file \o "'"
    \o (IF IsDefined(f.line) /\ f.line[1] # 0
        THEN " (Line " \o NumToString(f.line[1]) \o ")" ELSE "")
    \o "\n- **" \o f.category \o "**\n- Issue: " \o f.issue
    \o "\n- Suggestion: " \o f.suggestion

reportGlyph(recommendation) ==
    IF recommendation = "POSITIVE" THEN "[ok]"
    ELSE IF recommendation = "NEGATIVE" THEN "[no]"
    ELSE "[warn]"

formatReviewComment(r) ==
    "## " \o reportGlyph(r.recommendation) \o " AI Code Review Report\n\n"
    \o "### Rating: " \o NumToString(r.overall_score) \o "/10  \n"
    \o "**Recommendation:** " \o r.recommendation \o "\n\n"
    \o "### Summary\n" \o r.summary \o "\n\n"
    \o (IF Len(r.positive_aspects) # 0
        THEN "### [pos] Positive Aspects\n"
             \o Join(Bullets(r.positive_aspects), "\n")
        ELSE "")
    \o "\n\n"
    \o (IF Len(r.detailed_findings) # 0
        THEN "### [find] Findings\n"
             \o Join([i \in 1..Len(r.detailed_findings) |->
                         formatFinding(r.detailed_findings[i])], "\n\n")
        ELSE "")
    \o "\n\n"
    \o (IF Len(r.areas_for_improvement) # 0
        THEN "### [areas] Areas for Improvement\n "
             \o Join(Bullets(r.areas_for_improvement), "\n")
        ELSE "")
    \o "\n\n---\n*[bot] Generated by AI Code Review Agent*  \n"
    \o "*[warn] Please perform a manual review regardless of this recommendation*\n"

(***************************************************************************)
(* Stack detection and the prompt (createAnalysisPrompt)                   *)
(***************************************************************************)
Range(f) == {f[i] : i \in DOMAIN f}

StartsWith(s, prefix) ==
    Len(s) >= Len(prefix) /\ SubSeq(s, 1, Len(prefix)) = prefix

\* the text of a patch is a sequence of words; an absent patch has none
PatchWords(file) == IF IsDefined(file.patch) THEN Range(file.patch[1]) ELSE {}

\* detection with the base frameworks tested before the meta-frameworks
detectStackBaseFirst(files) ==
    LET F == Range(files)
        manifest(name, word) ==
            \E f \in F : EndsWith(f.filename, name) /\ word \in PatchWords(f)
    IN  IF manifest(<<"c","o","m","p","o","s","e","r",".","j","s","o","n">>,
                    "laravel/framework") THEN "laravel"
        ELSE IF \E f \in F : StartsWith(f.filename,
                    <<"w","p","-","c","o","n","t","e","n","t","/">>)
             THEN "wordpress"
        ELSE IF \E f \in F : EndsWith(f.filename,
                    <<"m","a","n","a","g","e",".","p","y">>) THEN "django"
        ELSE IF \E f \in F : /\ EndsWith(f.filename, <<".","p","y">>)
                             /\ "flask" \in PatchWords(f) THEN "flask"
        ELSE IF manifest(<<"p","a","c","k","a","g","e",".","j","s","o","n">>,
                         "react") THEN "react"
        ELSE IF manifest(<<"p","a","c","k","a","g","e",".","j","s","o","n">>,
                         "vue") THEN "vue"
        ELSE IF manifest(<<"p","a","c","k","a","g","e",".","j","s","o","n">>,
                         "next") THEN "next"
        ELSE IF manifest(<<"p","a","c","k","a","g","e",".","j","s","o","n">>,
                         "nuxt") THEN "nuxt"
        ELSE IF \E f \in F : EndsWith(f.filename, <<".","v","u","e">>)
             THEN "vue"
        ELSE "generic"

\* detect-stack: ordered rules, first match wins
detectStack(files) ==
    LET F == Range(files)
        manifest(name, word) ==
            \E f \in F : EndsWith(f.filename, name) /\ word \in PatchWords(f)
    IN  IF manifest(<<"c","o","m","p","o","s","e","r",".","j","s","o","n">>,
                    "laravel/framework") THEN "laravel"
        ELSE IF \E f \in F : StartsWith(f.filename,
                    <<"w","p","-","c","o","n","t","e","n","t","/">>)
             THEN "wordpress"
        ELSE IF \E f \in F : EndsWith(f.filename,
                    <<"m","a","n","a","g","e",".","p","y">>) THEN "django"
        ELSE IF \E f \in F : /\ EndsWith(f.filename, <<".","p","y">>)
                             /\ "flask" \in PatchWords(f) THEN "flask"
        ELSE IF manifest(<<"p","a","c","k","a","g","e",".","j","s","o","n">>,
                         "next") THEN "next"
        ELSE IF manifest(<<"p","a","c","k","a","g","e",".","j","s","o","n">>,
                         "nuxt") THEN "nuxt"
        ELSE IF manifest(<<"p","a","c","k","a","g","e",".","j","s","o","n">>,
                         "react") THEN "react"
        ELSE IF manifest(<<"p","a","c","k","a","g","e",".","j","s","o","n">>,
                         "vue") THEN "vue"
        ELSE IF \E f \in F : EndsWith(f.filename, <<".","v","u","e">>)
             THEN "vue"
        ELSE "generic"

\* the fixed role table keyed by stack tag
stackRole(stack) ==
    IF stack = "generic" THEN "senior software engineer"
    ELSE "senior " \o stack \o " engineer"

\* the prompt built from the detected stack alone
createAnalysisPromptDetected(files, prData, forcedStack) ==
    [role  |-> stackRole(detectStack(files)),
     title |-> prData.title,
     body  |-> prData.body,
     files |-> files]

\* The prompt is kept as the parts the template interpolates.
createAnalysisPrompt(files, prData, forcedStack) ==
    LET detected == detectStack(files)
        stack == IF IsDefined(forcedStack) THEN forcedStack[1] ELSE detected
    IN  [role  |-> stackRole(stack),
         title |-> prData.title,
         body  |-> prData.body,
         files |-> files]

(***************************************************************************)
(* Action inputs (getInputs, parseFilePatterns)                            *)
(***************************************************************************)
Digits == <<"0", "1", "2", "3", "4", "5", "6", "7", "8", "9">>

IsDigit(c) == \E d \in 1..10 : Digits[d] = c

DigitValue(c) == (CHOOSE d \in 1..10 : Digits[d] = c) - 1

RECURSIVE LeadingDigits(_, _)
LeadingDigits(str, acc) ==
    IF str = <<>> \/ ~IsDigit(Head(str)) THEN acc
    ELSE LeadingDigits(Tail(str), 10 * acc + DigitValue(Head(str)))

\* parseInt on a string of digits and letters: Undefined stands for NaN
parseInt(str) ==
    IF str = <<>> \/ ~IsDigit(Head(str)) THEN Undefined
    ELSE Some(LeadingDigits(str, 0))

\* String.prototype.split(',')
RECURSIVE Split(_, _)
Split(str, cur) ==
    IF str = <<>> THEN <<cur>>
    ELSE IF Head(str) = "," THEN <<cur>> \o Split(Tail(str), <<>>)
    ELSE Split(Tail(str), Append(cur, Head(str)))

RECURSIVE TrimStart(_)
TrimStart(str) ==
    IF str # <<>> /\ Head(str) = " " THEN TrimStart(Tail(str)) ELSE str

RECURSIVE TrimEnd(_)
TrimEnd(str) ==
    IF str # <<>> /\ str[Len(str)] = " "
    THEN TrimEnd(SubSeq(str, 1, Len(str) - 1)) ELSE str

Trim(str) == TrimEnd(TrimStart(str))

parseFilePatterns(input) ==
    LET parts == Split(input, <<>>)
        trimmed == [i \in 1..Len(parts) |-> Trim(parts[i])]
    IN  SelectSeq(trimmed, LAMBDA pattern : Len(pattern) > 0)

DefaultMinScoreThreshold == 7

\* getInput(name) || fallback: the empty string stands for an input not given
OrDefault(input, fallback) == IF input = "" THEN fallback ELSE input

\* the stack input is not among the inputs read
getInputs(raw) ==
    LET parsed == parseInt(raw.minScoreThreshold) IN
    [provider          |-> OrDefault(raw.provider, "openai"),
     aiModel           |-> OrDefault(raw.aiModel, "gpt-4o-mini"),
     filePatterns      |-> parseFilePatterns(raw.filePatterns),
     excludePatterns   |-> parseFilePatterns(raw.excludePatterns),
     minScoreThreshold |-> IF IsDefined(parsed) /\ parsed[1] # 0
                           THEN parsed[1] ELSE DefaultMinScoreThreshold,
     postComment       |-> raw.postComment,
     failOnLowScore    |-> raw.failOnLowScore]

\* config.model ?? fallback
ModelOr(cfg, fallback) == IF IsDefined(cfg.model) THEN cfg.model[1] ELSE fallback

\* the chat client the constructor builds: its class and the model it names
buildLLM(cfg) ==
    LET provider == IF IsDefined(cfg.provider) THEN cfg.provider[1]
                    ELSE "openai"
    IN  CASE provider = "anthropic" ->
               [client |-> "ChatAnthropic",
                model  |-> ModelOr(cfg, "claude-3-opus-20240229")]
          [] provider = "gemini" ->
               [client |-> "ChatGoogleGenerativeAI",
                model  |-> ModelOr(cfg, "gemini-pro")]
          [] provider = "ollama" ->
               [client |-> "ChatOllama",
                model  |-> ModelOr(cfg, "llama3")]
          [] OTHER ->
               [client |-> "ChatOpenAI",
                model  |-> ModelOr(cfg, "gpt-4o-mini")]

\* the constructor with config.postComment || true
AgentOfAlwaysPost(config) ==
    [llm             |-> buildLLM(config),
     forcedStack     |-> config.stack,
     filePatterns    |-> config.filePatterns,
     excludePatterns |-> config.excludePatterns,
     postComment     |-> TRUE]

\* GitHubAIReviewAgent.constructor: the fields the pipeline reads
AgentOf(config) ==
    [llm             |-> buildLLM(config),
     forcedStack     |-> config.stack,
     filePatterns    |-> config.filePatterns,
     excludePatterns |-> config.excludePatterns,
     postComment     |-> IF IsDefined(config.postComment)
                         THEN config.postComment[1] ELSE TRUE]

(***************************************************************************)
(* The values the environment supplies                                     *)
(***************************************************************************)
File(filename, status, patch) ==
    [filename |-> filename, status |-> status, additions |-> 1,
     deletions |-> 0, patch |-> patch]

ReadmeMd == File(<<"R","E","A","D","M","E",".","m","d">>, "modified",
                 Some(<<"docs">>))

AppTsx == File(<<"s","r","c","/","a","p","p",".","t","s","x">>, "modified",
               Some(<<"import", "react">>))

ATs == File(<<"a",".","t","s">>, "added", Some(<<"export">>))

OldMd == File(<<"o",".","m","d">>, "renamed", Undefined)

GoneTs == File(<<"g",".","t","s">>, "removed", Undefined)

SubTs == File(<<"a","/","b",".","t","s">>, "modified", Some(<<"export">>))

ChangedFiles == {ReadmeMd, AppTsx, ATs, SubTs, OldMd, GoneTs}

\* the changed-file lists pulls.listFiles may return: a file is listed once
FileLists ==
    UNION {{files \in [1..n -> ChangedFiles] :
               \A i, j \in 1..n : files[i] = files[j] => i = j} :
           n \in 0..MaxFiles}

\* A second pull request of the repository, whose changed files carry the
\* evidence the stack detector looks for.
StackPullNumber == 8

Modified(filename, words) == File(filename, "modified", Some(words))

ComposerJson ==
    Modified(<<"c","o","m","p","o","s","e","r",".","j","s","o","n">>,
             <<"require", "laravel/framework">>)

WpPhp == Modified(<<"w","p","-","c","o","n","t","e","n","t","/","x",".","p","h","p">>,
                  <<"echo">>)

ManagePy == Modified(<<"m","a","n","a","g","e",".","p","y">>, <<"import">>)

AppPy == Modified(<<"a","p","p",".","p","y">>, <<"import", "flask">>)

PackageJson == <<"p","a","c","k","a","g","e",".","j","s","o","n">>

\* a manifest of a meta-framework declares the base framework as well
NextManifest == Modified(PackageJson, <<"next", "react">>)

NuxtManifest == Modified(PackageJson, <<"nuxt", "vue">>)

ReactManifest == Modified(PackageJson, <<"react">>)

VueManifest == Modified(PackageJson, <<"vue">>)

CVue == Modified(<<"c",".","v","u","e">>, <<"template">>)

IJs == Modified(<<"i",".","j","s">>, <<"export">>)

StackFiles == {ComposerJson, WpPhp, ManagePy, AppPy, NextManifest,
               NuxtManifest, ReactManifest, VueManifest, CVue, IJs}

\* the changed-file lists of the second pull request: a path is listed once
StackFileLists ==
    UNION {{files \in [1..n -> StackFiles] :
               \A i, j \in 1..n :
                   files[i].filename = files[j].filename => i = j} :
           n \in 0..MaxFiles}

\* Two small pull requests of the repository, reviewed at the same time by
\* one agent.
FirstPullNumber == 9

SecondPullNumber == 10

\* what pulls.listFiles may return for a pull request
ListedFiles(pullNumber) ==
    IF pullNumber = StackPullNumber THEN StackFileLists
    ELSE IF pullNumber = FirstPullNumber THEN {<<AppTsx>>, <<ReadmeMd>>}
    ELSE IF pullNumber = SecondPullNumber THEN {<<ATs>>, <<SubTs, ATs>>}
    ELSE FileLists

\* the pull requests pulls.get may return (body is null for Undefined)
PullRequests(pullNumber) ==
    {[title |-> "Add app", body |-> Undefined, number |-> pullNumber]}

\* the values a failing collaborator call throws
Thrown == {[isError |-> TRUE, message |-> "Bad credentials"],
           [isError |-> TRUE, message |-> ""],
           [isError |-> FALSE, message |-> ""]}

\* the message of the thrown value is dropped
errMessageUnknown(err) == "Unknown error"

\* err instanceof Error ? err.message : "Unknown error"
errMessage(err) == IF err.isError THEN err.message ELSE "Unknown error"

Finding(file, line) ==
    JObj([category |-> JStr("SECURITY"), severity |-> JStr("HIGH"),
          file |-> JStr(file), line |-> line,
          issue |-> JStr("unsafe html"), suggestion |-> JStr("escape it")])

ReviewObject(score, recommendation, summary, findings) ==
    [overall_score         |-> score,
     recommendation        |-> recommendation,
     summary               |-> summary,
     detailed_findings     |-> findings,
     positive_aspects      |-> JArr(<<JStr("small diff")>>),
     areas_for_improvement |-> JArr(<<>>)]

GoodReview ==
    ReviewObject(JNum(Num(8)), JStr("POSITIVE"), JStr("Looks good"),
                 JArr(<<Finding("src/app.tsx", JNum(Num(3)))>>))

PoorReview ==
    ReviewObject(JNum(Num(3)), JStr("NEGATIVE"), JStr("Needs work"),
                 JArr(<<Finding("b.ts", JMissingNumber),
                        Finding("a.ts", JNum(Num(0))),
                        Finding("b.ts", JNum(Num(9)))>>))

CleanReview ==
    ReviewObject(JNum(Num(10)), JStr("NEEDS_CHANGES"), JStr(""), JArr(<<>>))

HalfScoreReview ==
    ReviewObject(JNum(Num(7) + 1), JStr("POSITIVE"), JStr("Fine"), JArr(<<>>))

\* the texts the completion provider may return (a list: its members are
\* of different JSON types)
ModelTexts ==
    << <<Prose>>,
      <<LBrace, Members(GoodReview), RBrace>>,
      <<Prose, LBrace, Members(PoorReview), RBrace, Prose>>,
      <<LBrace, Members(CleanReview), RBrace>>,
      <<LBrace, Members(HalfScoreReview), RBrace>>,
      <<LBrace, Members(ReviewObject(JNum(Num(11)), JStr("POSITIVE"),
                                     JStr("Great"), JArr(<<>>))), RBrace>>,
      <<LBrace, Members(ReviewObject(JNum(Num(8)), JStr("APPROVE"),
                                     JStr("Great"), JArr(<<>>))), RBrace>>,
      <<LBrace, Members(ReviewObject(JNum(Num(8)), JStr("POSITIVE"),
                                     JMissingString, JArr(<<>>))), RBrace>>,
      <<LBrace, Prose, RBrace>>,
      <<RBrace, Prose, LBrace>>,
      <<Prose, LBrace, Prose, RBrace, Prose,
        LBrace, Members(GoodReview), RBrace, Prose>> >>

\* the raw action inputs and the workflow event
RawInputs ==
    [hasPullRequest    : BOOLEAN,
     provider          : {""},
     aiModel           : {""},
     stack             : {""},
     filePatterns      : {<<>>, <<"*",".","t","s",","," ","R","*">>},
     excludePatterns   : {<<>>, <<"a","*",","," ","o","*",",">>},
     minScoreThreshold : {<<>>, <<"0">>, <<"5">>},
     postComment       : BOOLEAN,
     failOnLowScore    : BOOLEAN]

(***************************************************************************)
(* State                                                                   *)
(***************************************************************************)
VARIABLES
    raw,         \* the action inputs and event of this workflow run
    agent,       \* the constructed GitHubAIReviewAgent, Undefined before
    pc,          \* "run", a graph node, "END", "returned" or "exit"
    state,       \* the AgentState of the graph run
    finalState,  \* what graph.invoke returned, Undefined before
    result,      \* the ReviewResult of reviewPullRequest, Undefined before
    executed,    \* the graph nodes executed so far, in order
    calls,       \* the collaborator calls made so far, in order
    job,         \* what run() reported to the workflow
    suspended    \* the other pending invocations of reviewPullRequest on
                 \* this agent, each with its own pc, state, finalState,
                 \* result, executed and calls; none unless the agent is
                 \* called concurrently

vars == <<raw, agent, pc, state, finalState, result, executed, calls, job,
          suspended>>

Nodes == {"fetchPR", "filterFiles", "analyzeCode", "formatReview",
          "postReview", "handleError"}

\* a collaborator call with its outcome: the value it returned, or the
\* value it threw
Call(op, with, ok, value) ==
    [op |-> op, with |-> with, ok |-> ok, value |-> value]

Returned(op, with, value) == Call(op, with, TRUE, value)

Threw(op, with, err) == Call(op, with, FALSE, err)

NoJob == [failed |-> FALSE, message |-> Undefined, outputs |-> Undefined]

\* initialState of reviewPullRequest
initialState(owner, repo, pullNumber) ==
    [owner |-> owner, repo |-> repo, pullNumber |-> pullNumber,
     prData |-> Undefined, relevantFiles |-> Undefined,
     aiReview |-> Undefined, reviewComment |-> Undefined,
     error |-> Undefined, completed |-> FALSE]

Init ==
    /\ raw \in RawInputs
    /\ agent = Undefined
    /\ pc = "run"
    /\ state = initialState("", "", 0)
    /\ finalState = Undefined
    /\ result = Undefined
    /\ executed = <<>>
    /\ calls = <<>>
    /\ job = NoJob
    /\ suspended = <<>>

(***************************************************************************)
(* The graph (createGraph)                                                 *)
(***************************************************************************)
\* channels that do not keep their value: a key absent from a node's update
\* is reset
mergeResetting(s, update) ==
    [k \in DOMAIN s |-> IF k \in DOMAIN update THEN update[k]
                        ELSE initialState("", "", 0)[k]]

\* every channel keeps the last value written: the keys of a node's update
\* replace the state's
merge(s, update) ==
    [k \in DOMAIN s |-> IF k \in DOMAIN update THEN update[k] ELSE s[k]]

\* the superseded edges, kept commented out in the source: s.completed is
\* not consulted
nextNodeDeprecated(node, s) ==
    IF node \in {"postReview", "handleError"} THEN "END"
    ELSE IF TruthyStr(s.error) THEN "handleError"
    ELSE CASE node = "fetchPR"      -> "filterFiles"
           [] node = "filterFiles"  -> "analyzeCode"
           [] node = "analyzeCode"  -> "formatReview"
           [] node = "formatReview" -> "postReview"

\* the conditional edges without the test of s.error
nextNodeIgnoringError(node, s) ==
    IF node \in {"postReview", "handleError"} THEN "END"
    ELSE IF s.completed THEN "END"
    ELSE CASE node = "fetchPR"      -> "filterFiles"
           [] node = "filterFiles"  -> "analyzeCode"
           [] node = "analyzeCode"  -> "formatReview"
           [] node = "formatReview" -> "postReview"

\* the edges with postReview routed like the four stages before it
nextNodePublishChecked(node, s) ==
    IF node = "handleError" THEN "END"
    ELSE IF TruthyStr(s.error) THEN "handleError"
    ELSE IF s.completed THEN "END"
    ELSE CASE node = "fetchPR"      -> "filterFiles"
           [] node = "filterFiles"  -> "analyzeCode"
           [] node = "analyzeCode"  -> "formatReview"
           [] node = "formatReview" -> "postReview"
           [] node = "postReview"   -> "END"

\* the edges with a retry: ERROR leads back to FETCH
nextNodeRetry(node, s) ==
    IF node = "postReview" THEN "END"
    ELSE IF node = "handleError" THEN "fetchPR"
    ELSE IF TruthyStr(s.error) THEN "handleError"
    ELSE IF s.completed THEN "END"
    ELSE CASE node = "fetchPR"      -> "filterFiles"
           [] node = "filterFiles"  -> "analyzeCode"
           [] node = "analyzeCode"  -> "formatReview"
           [] node = "formatReview" -> "postReview"

\* plain edges from each stage to the next, consulting neither s.error nor
\* s.completed
nextNodeLinear(node, s) ==
    CASE node = "fetchPR"      -> "filterFiles"
      [] node = "filterFiles"  -> "analyzeCode"
      [] node = "analyzeCode"  -> "formatReview"
      [] node = "formatReview" -> "postReview"
      [] node = "postReview"   -> "END"
      [] node = "handleError"  -> "END"

\* the conditional edges
nextNode(node, s) ==
    IF node \in {"postReview", "handleError"} THEN "END"
    ELSE IF TruthyStr(s.error) THEN "handleError"
    ELSE IF s.completed THEN "END"
    ELSE CASE node = "fetchPR"      -> "filterFiles"
           [] node = "filterFiles"  -> "analyzeCode"
           [] node = "analyzeCode"  -> "formatReview"
           [] node = "formatReview" -> "postReview"

\* one superstep: the node's update is merged, then its edge is followed
Step(node, update) ==
    /\ state' = merge(state, update)
    /\ executed' = Append(executed, node)
    /\ pc' = nextNode(node, state')

(***************************************************************************)
(* run() of the action, up to the call of reviewPullRequest                *)
(***************************************************************************)
Owner == "octo"

Repo == "demo"

PullNumber == 7

runStart ==
    /\ pc = "run"
    /\ IF ~raw.hasPullRequest
       THEN /\ job' = [failed |-> TRUE,
                       message |-> Some("This action can only be run on pull requests"),
                       outputs |-> Undefined]
            /\ pc' = "exit"
            /\ UNCHANGED <<agent, state>>
       ELSE LET inputs == getInputs(raw) IN
            /\ agent' = Some(AgentOf([provider |-> Some(inputs.provider),
                                      model |-> Some(inputs.aiModel),
                                      stack |-> Undefined,
                                      filePatterns |-> inputs.filePatterns,
                                      excludePatterns |-> inputs.excludePatterns,
                                      postComment |-> Some(inputs.postComment)]))
            /\ state' = initialState(Owner, Repo, PullNumber)
            /\ pc' = "fetchPR"
            /\ UNCHANGED job
    /\ UNCHANGED <<raw, suspended, finalState, result, executed, calls>>

(***************************************************************************)
(* Node implementations                                                    *)
(***************************************************************************)
PullRef == <<state.owner, state.repo, state.pullNumber>>

\* the node asking for the file list before the pull request itself
fetchPullRequestNodeFilesFirst ==
    /\ pc = "fetchPR"
    /\ \/ \E err \in Thrown :
            /\ calls' = Append(calls, Threw("pulls.listFiles", PullRef, err))
            /\ Step("fetchPR",
                    [error |-> Some("Gabim gjate marrjes se PR: "
                                    \o errMessage(err))])
       \/ \E files \in ListedFiles(state.pullNumber), err \in Thrown :
            /\ calls' = calls \o <<Returned("pulls.listFiles", PullRef, files),
                                   Threw("pulls.get", PullRef, err)>>
            /\ Step("fetchPR",
                    [error |-> Some("Gabim gjate marrjes se PR: "
                                    \o errMessage(err))])
       \/ \E pr \in PullRequests(state.pullNumber),
               files \in ListedFiles(state.pullNumber) :
            /\ calls' = calls \o <<Returned("pulls.listFiles", PullRef,
                                            files),
                                   Returned("pulls.get", PullRef, pr)>>
            /\ Step("fetchPR",
                    [prData |-> Some([title  |-> pr.title,
                                      body   |-> IF IsDefined(pr.body)
                                                 THEN pr.body[1] ELSE "",
                                      number |-> pr.number,
                                      files  |-> files])])
    /\ UNCHANGED <<raw, suspended, agent, finalState, result, job>>

\* the node with a catch block that returns an empty update
fetchPullRequestNodeSwallow ==
    /\ pc = "fetchPR"
    /\ \/ \E err \in Thrown :
            /\ calls' = Append(calls, Threw("pulls.get", PullRef, err))
            /\ Step("fetchPR", <<>>)
       \/ \E pr \in PullRequests(state.pullNumber), err \in Thrown :
            /\ calls' = calls \o <<Returned("pulls.get", PullRef, pr),
                                   Threw("pulls.listFiles", PullRef, err)>>
            /\ Step("fetchPR", <<>>)
       \/ \E pr \in PullRequests(state.pullNumber),
               files \in ListedFiles(state.pullNumber) :
            /\ calls' = calls \o <<Returned("pulls.get", PullRef, pr),
                                   Returned("pulls.listFiles", PullRef,
                                            files)>>
            /\ Step("fetchPR",
                    [prData |-> Some([title  |-> pr.title,
                                      body   |-> IF IsDefined(pr.body)
                                                 THEN pr.body[1] ELSE "",
                                      number |-> pr.number,
                                      files  |-> files])])
    /\ UNCHANGED <<raw, suspended, agent, finalState, result, job>>

\* 1  Fetch Pull Request data.  The messages of the source are Albanian;
\*    their diacritics are dropped here.
fetchPullRequestNode ==
    /\ pc = "fetchPR"
    /\ \/ \E err \in Thrown :
            /\ calls' = Append(calls, Threw("pulls.get", PullRef, err))
            /\ Step("fetchPR",
                    [error |-> Some("Gabim gjate marrjes se PR: "
                                    \o errMessage(err))])
       \/ \E pr \in PullRequests(state.pullNumber), err \in Thrown :
            /\ calls' = calls \o <<Returned("pulls.get", PullRef, pr),
                                   Threw("pulls.listFiles", PullRef, err)>>
            /\ Step("fetchPR",
                    [error |-> Some("Gabim gjate marrjes se PR: "
                                    \o errMessage(err))])
       \/ \E pr \in PullRequests(state.pullNumber),
               files \in ListedFiles(state.pullNumber) :
            /\ calls' = calls \o <<Returned("pulls.get", PullRef, pr),
                                   Returned("pulls.listFiles", PullRef,
                                            files)>>
            /\ Step("fetchPR",
                    [prData |-> Some([title  |-> pr.title,
                                      body   |-> IF IsDefined(pr.body)
                                                 THEN pr.body[1] ELSE "",
                                      number |-> pr.number,
                                      files  |-> files])])
    /\ UNCHANGED <<raw, suspended, agent, finalState, result, job>>

\* the superseded body of the node, kept commented out in the source: an
\* empty subset is reported as an error
filterRelevantFilesNodeLegacy ==
    /\ pc = "filterFiles"
    /\ IF ~IsDefined(state.prData)
       THEN Step("filterFiles", [error |-> Some("PR data missing")])
       ELSE LET relevantFiles == filterFiles(state.prData[1].files,
                                             agent[1].filePatterns,
                                             agent[1].excludePatterns)
            IN  IF Len(relevantFiles) = 0
                THEN Step("filterFiles",
                          [error |-> Some("S'ka file qe perputhen me kriteret per review"),
                           completed |-> TRUE])
                ELSE Step("filterFiles",
                          [relevantFiles |-> Some(relevantFiles)])
    /\ UNCHANGED <<raw, suspended, agent, finalState, result, calls, job>>

\* the node without the short-circuit: an empty subset is stored and the
\* run goes on
filterRelevantFilesNodeNoShortCircuit ==
    /\ pc = "filterFiles"
    /\ IF ~IsDefined(state.prData)
       THEN Step("filterFiles", [error |-> Some("PR data missing")])
       ELSE Step("filterFiles",
                 [relevantFiles |->
                     Some(filterFiles(state.prData[1].files,
                                      agent[1].filePatterns,
                                      agent[1].excludePatterns))])
    /\ UNCHANGED <<raw, suspended, agent, finalState, result, calls, job>>

\* the node taking a missing pull request for one without files
filterRelevantFilesNodeLenient ==
    /\ pc = "filterFiles"
    /\ LET relevantFiles ==
               IF IsDefined(state.prData)
               THEN filterFiles(state.prData[1].files, agent[1].filePatterns,
                                agent[1].excludePatterns)
               ELSE <<>>
       IN  IF Len(relevantFiles) = 0
           THEN Step("filterFiles", [completed |-> TRUE])
           ELSE Step("filterFiles", [relevantFiles |-> Some(relevantFiles)])
    /\ UNCHANGED <<raw, suspended, agent, finalState, result, calls, job>>

\* 2  Filter relevant files using filePatterns and excludePatterns
filterRelevantFilesNode ==
    /\ pc = "filterFiles"
    /\ IF ~IsDefined(state.prData)
       THEN Step("filterFiles", [error |-> Some("PR data missing")])
       ELSE LET relevantFiles == filterFiles(state.prData[1].files,
                                             agent[1].filePatterns,
                                             agent[1].excludePatterns)
            IN  IF Len(relevantFiles) = 0
                THEN Step("filterFiles", [completed |-> TRUE])
                ELSE Step("filterFiles",
                          [relevantFiles |-> Some(relevantFiles)])
    /\ UNCHANGED <<raw, suspended, agent, finalState, result, calls, job>>

\* analyzeCodeNode over a parser without its own catch: an unusable model
\* text reaches the catch of the node
analyzeCodeNodeStrict ==
    /\ pc = "analyzeCode"
    /\ IF ~IsDefined(state.relevantFiles) \/ ~IsDefined(state.prData)
       THEN /\ Step("analyzeCode",
                    [error |-> Some("Missing data for analysis")])
            /\ UNCHANGED calls
       ELSE LET prompt == createAnalysisPrompt(state.relevantFiles[1],
                                               state.prData[1],
                                               agent[1].forcedStack)
            IN  \/ \E t \in 1..Len(ModelTexts) :
                     /\ calls' = Append(calls, Returned("llm.invoke", prompt,
                                                        ModelTexts[t]))
                     /\ IF parseAIResponse(ModelTexts[t]) = FallbackReview
                        THEN Step("analyzeCode",
                                  [error |-> Some("Gabim gjate analizes: "
                                        \o "JSON not found in LLM response")])
                        ELSE Step("analyzeCode",
                                  [aiReview |->
                                      Some(parseAIResponse(ModelTexts[t]))])
                \/ \E err \in Thrown :
                     /\ calls' = Append(calls, Threw("llm.invoke", prompt,
                                                     err))
                     /\ Step("analyzeCode",
                             [error |-> Some("Gabim gjate analizes: "
                                             \o errMessage(err))])
    /\ UNCHANGED <<raw, suspended, agent, finalState, result, job>>

\* analyzeCodeNode with one retry of a failed completion call
analyzeCodeNodeRetry ==
    /\ pc = "analyzeCode"
    /\ IF ~IsDefined(state.relevantFiles) \/ ~IsDefined(state.prData)
       THEN /\ Step("analyzeCode",
                    [error |-> Some("Missing data for analysis")])
            /\ UNCHANGED calls
       ELSE LET prompt == createAnalysisPrompt(state.relevantFiles[1],
                                               state.prData[1],
                                               agent[1].forcedStack)
            IN  \/ \E t \in 1..Len(ModelTexts) :
                     /\ calls' = Append(calls, Returned("llm.invoke", prompt,
                                                        ModelTexts[t]))
                     /\ Step("analyzeCode",
                             [aiReview |->
                                 Some(parseAIResponse(ModelTexts[t]))])
                \/ \E err \in Thrown, t \in 1..Len(ModelTexts) :
                     /\ calls' = calls \o
                            <<Threw("llm.invoke", prompt, err),
                              Returned("llm.invoke", prompt, ModelTexts[t])>>
                     /\ Step("analyzeCode",
                             [aiReview |->
                                 Some(parseAIResponse(ModelTexts[t]))])
    /\ UNCHANGED <<raw, suspended, agent, finalState, result, job>>

\* analyzeCodeNode storing the fallback review when the completion call fails
analyzeCodeNodeFallbackOnFailure ==
    /\ pc = "analyzeCode"
    /\ IF ~IsDefined(state.relevantFiles) \/ ~IsDefined(state.prData)
       THEN /\ Step("analyzeCode",
                    [error |-> Some("Missing data for analysis")])
            /\ UNCHANGED calls
       ELSE LET prompt == createAnalysisPrompt(state.relevantFiles[1],
                                               state.prData[1],
                                               agent[1].forcedStack)
            IN  \/ \E t \in 1..Len(ModelTexts) :
                     /\ calls' = Append(calls, Returned("llm.invoke", prompt,
                                                        ModelTexts[t]))
                     /\ Step("analyzeCode",
                             [aiReview |->
                                 Some(parseAIResponse(ModelTexts[t]))])
                \/ \E err \in Thrown :
                     /\ calls' = Append(calls, Threw("llm.invoke", prompt,
                                                     err))
                     /\ Step("analyzeCode",
                             [error |-> Some("Gabim gjate analizes: "
                                             \o errMessage(err)),
                              aiReview |-> Some(FallbackReview)])
    /\ UNCHANGED <<raw, suspended, agent, finalState, result, job>>

\* 3  Analyze code with LLM
analyzeCodeNode ==
    /\ pc = "analyzeCode"
    /\ IF ~IsDefined(state.relevantFiles) \/ ~IsDefined(state.prData)
       THEN /\ Step("analyzeCode",
                    [error |-> Some("Missing data for analysis")])
            /\ UNCHANGED calls
       ELSE LET prompt == createAnalysisPrompt(state.relevantFiles[1],
                                               state.prData[1],
                                               agent[1].forcedStack)
            IN  \/ \E t \in 1..Len(ModelTexts) :
                     /\ calls' = Append(calls, Returned("llm.invoke", prompt,
                                                        ModelTexts[t]))
                     /\ Step("analyzeCode",
                             [aiReview |->
                                 Some(parseAIResponse(ModelTexts[t]))])
                \/ \E err \in Thrown :
                     /\ calls' = Append(calls, Threw("llm.invoke", prompt,
                                                     err))
                     /\ Step("analyzeCode",
                             [error |-> Some("Gabim gjate analizes: "
                                             \o errMessage(err))])
    /\ UNCHANGED <<raw, suspended, agent, finalState, result, job>>

\* the findings of one file moved next to the first finding of that file
RECURSIVE groupByFile(_)
groupByFile(findings) ==
    IF findings = <<>> THEN <<>>
    ELSE LET same  == SelectSeq(Tail(findings),
                                LAMBDA f : f.file = Head(findings).file)
             other == SelectSeq(Tail(findings),
                                LAMBDA f : f.file # Head(findings).file)
         IN  <<Head(findings)>> \o same \o groupByFile(other)

\* the node rendering the findings grouped by file
formatReviewNodeGrouped ==
    /\ pc = "formatReview"
    /\ IF ~IsDefined(state.aiReview)
       THEN Step("formatReview", [error |-> Some("AI review data missing")])
       ELSE Step("formatReview",
                 [reviewComment |->
                     Some(formatReviewComment(
                         [state.aiReview[1] EXCEPT !.detailed_findings =
                              groupByFile(@)]))])
    /\ UNCHANGED <<raw, suspended, agent, finalState, result, calls, job>>

\* 4  Format review comment
formatReviewNode ==
    /\ pc = "formatReview"
    /\ IF ~IsDefined(state.aiReview)
       THEN Step("formatReview", [error |-> Some("AI review data missing")])
       ELSE Step("formatReview",
                 [reviewComment |->
                     Some(formatReviewComment(state.aiReview[1]))])
    /\ UNCHANGED <<raw, suspended, agent, finalState, result, calls, job>>

\* postReviewNode with a catch that swallows the failure of createReview
postReviewNodeSwallow ==
    /\ pc = "postReview"
    /\ IF ~TruthyStr(state.reviewComment)
       THEN /\ Step("postReview", [error |-> Some("Review comment missing")])
            /\ UNCHANGED calls
       ELSE IF agent[1].postComment
       THEN LET review == [ref |-> PullRef, body |-> state.reviewComment[1],
                           event |-> "COMMENT"]
            IN  \/ /\ calls' = Append(calls, Returned("pulls.createReview",
                                                      review, <<>>))
                   /\ Step("postReview", [completed |-> TRUE])
                \/ \E err \in Thrown :
                     /\ calls' = Append(calls, Threw("pulls.createReview",
                                                     review, err))
                     /\ Step("postReview", [completed |-> TRUE])
       ELSE /\ Step("postReview", [completed |-> TRUE])
            /\ UNCHANGED calls
    /\ UNCHANGED <<raw, suspended, agent, finalState, result, job>>

\* postReviewNode marking the run done in its catch block as well
postReviewNodeDoneOnFailure ==
    /\ pc = "postReview"
    /\ IF ~TruthyStr(state.reviewComment)
       THEN /\ Step("postReview", [error |-> Some("Review comment missing")])
            /\ UNCHANGED calls
       ELSE IF agent[1].postComment
       THEN LET review == [ref |-> PullRef, body |-> state.reviewComment[1],
                           event |-> "COMMENT"]
            IN  \/ /\ calls' = Append(calls, Returned("pulls.createReview",
                                                      review, <<>>))
                   /\ Step("postReview", [completed |-> TRUE])
                \/ \E err \in Thrown :
                     /\ calls' = Append(calls, Threw("pulls.createReview",
                                                     review, err))
                     /\ Step("postReview",
                             [error |-> Some("Gabim gjate postimit: "
                                             \o errMessage(err)),
                              completed |-> TRUE])
       ELSE /\ Step("postReview", [completed |-> TRUE])
            /\ UNCHANGED calls
    /\ UNCHANGED <<raw, suspended, agent, finalState, result, job>>

\* 5  Post comment on GitHub
postReviewNode ==
    /\ pc = "postReview"
    /\ IF ~TruthyStr(state.reviewComment)
       THEN /\ Step("postReview", [error |-> Some("Review comment missing")])
            /\ UNCHANGED calls
       ELSE IF agent[1].postComment
       THEN LET review == [ref |-> PullRef, body |-> state.reviewComment[1],
                           event |-> "COMMENT"]
            IN  \/ /\ calls' = Append(calls, Returned("pulls.createReview",
                                                      review, <<>>))
                   /\ Step("postReview", [completed |-> TRUE])
                \/ \E err \in Thrown :
                     /\ calls' = Append(calls, Threw("pulls.createReview",
                                                     review, err))
                     /\ Step("postReview",
                             [error |-> Some("Gabim gjate postimit: "
                                             \o errMessage(err))])
       ELSE /\ Step("postReview", [completed |-> TRUE])
            /\ UNCHANGED calls
    /\ UNCHANGED <<raw, suspended, agent, finalState, result, job>>

\* the node clearing what the failed run had gathered and rewording its error
handleErrorNodeRewrites ==
    /\ pc = "handleError"
    /\ Step("handleError",
            [completed |-> TRUE, prData |-> Undefined,
             error |-> Some("Agent error: " \o state.error[1])])
    /\ UNCHANGED <<raw, suspended, agent, finalState, result, calls, job>>

\* 6  Handle errors
handleErrorNode ==
    /\ pc = "handleError"
    /\ Step("handleError", [completed |-> TRUE])
    /\ UNCHANGED <<raw, suspended, agent, finalState, result, calls, job>>

(***************************************************************************)
(* reviewPullRequest: what it returns                                      *)
(***************************************************************************)
\* resultOf without the test of finalState.error
resultOfIgnoringError(final) ==
    LET aiReview == final.aiReview IN
    [success        |-> TRUE,
     recommendation |-> IF IsDefined(aiReview)
                        THEN Some(aiReview[1].recommendation) ELSE Undefined,
     score          |-> IF IsDefined(aiReview)
                        THEN Some(aiReview[1].overall_score) ELSE Undefined,
     issuesCount    |-> IF IsDefined(aiReview)
                        THEN Some(Len(aiReview[1].detailed_findings))
                        ELSE Some(0),
     summary        |-> IF IsDefined(aiReview)
                        THEN Some(aiReview[1].summary) ELSE Undefined,
     error          |-> Undefined]

\* the result built from the state graph.invoke returned
resultOf(final) ==
    IF TruthyStr(final.error)
    THEN [success |-> FALSE, recommendation |-> Undefined,
          score |-> Undefined, issuesCount |-> Undefined,
          summary |-> Undefined, error |-> final.error]
    ELSE LET aiReview == final.aiReview IN
         [success        |-> TRUE,
          recommendation |-> IF IsDefined(aiReview)
                             THEN Some(aiReview[1].recommendation)
                             ELSE Undefined,
          score          |-> IF IsDefined(aiReview)
                             THEN Some(aiReview[1].overall_score)
                             ELSE Undefined,
          issuesCount    |-> IF IsDefined(aiReview)
                             THEN Some(Len(aiReview[1].detailed_findings))
                             ELSE Some(0),
          summary        |-> IF IsDefined(aiReview)
                             THEN Some(aiReview[1].summary)
                             ELSE Undefined,
          error          |-> Undefined]

\* the result built by the catch block
caughtResult(err) ==
    [success |-> FALSE, recommendation |-> Undefined, score |-> Undefined,
     issuesCount |-> Undefined, summary |-> Undefined,
     error |-> Some(errMessage(err))]

\* graph.invoke resolves with the final state
reviewPullRequestReturn ==
    /\ pc = "END"
    /\ finalState' = Some(state)
    /\ result' = Some(resultOf(state))
    /\ pc' = "returned"
    /\ UNCHANGED <<raw, suspended, agent, state, executed, calls, job>>

\* reviewPullRequest without its catch block: the rejection of graph.invoke
\* reaches the catch block of run()
reviewPullRequestRethrow ==
    /\ pc \in Nodes
    /\ \E err \in Thrown :
         job' = [failed |-> TRUE,
                 message |-> Some("Action failed: " \o errMessage(err)),
                 outputs |-> Undefined]
    /\ pc' = "exit"
    /\ UNCHANGED <<raw, suspended, agent, state, finalState, result, executed, calls>>

\* graph.invoke rejects: the graph library fails between two nodes
reviewPullRequestCatch ==
    /\ pc \in Nodes
    /\ \E err \in Thrown : result' = Some(caughtResult(err))
    /\ pc' = "returned"
    /\ UNCHANGED <<raw, suspended, agent, state, finalState, executed, calls, job>>

(***************************************************************************)
(* run() of the action, after reviewPullRequest                            *)
(***************************************************************************)
\* x?.toString() || "0"
NumOutput(o) == IF IsDefined(o) THEN NumToString(o[1]) ELSE "0"

\* x || fallback for an optional string
StrOutput(o, fallback) == IF TruthyStr(o) THEN o[1] ELSE fallback

outputsOf(r) ==
    [reviewScore    |-> NumOutput(r.score),
     recommendation |-> StrOutput(r.recommendation, "UNKNOWN"),
     issuesFound    |-> IF IsDefined(r.issuesCount)
                        THEN ToString(r.issuesCount[1]) ELSE "0",
     reviewSummary  |-> StrOutput(r.summary, "No summary available")]

\* the CI gate
belowThreshold(inputs, r) ==
    /\ inputs.failOnLowScore
    /\ IsDefined(r.score)
    /\ r.score[1] < Num(inputs.minScoreThreshold)

runFinish ==
    /\ pc = "returned"
    /\ LET inputs == getInputs(raw)
           r == result[1]
       IN  IF ~r.success
           THEN job' = [failed |-> TRUE,
                        message |-> Some("Review failed: "
                                         \o (IF IsDefined(r.error)
                                             THEN r.error[1]
                                             ELSE "undefined")),
                        outputs |-> Undefined]
           ELSE IF belowThreshold(inputs, r)
           THEN job' = [failed |-> TRUE,
                        message |-> Some("Review score "
                                         \o NumToString(r.score[1])
                                         \o " is below threshold "
                                         \o ToString(inputs.minScoreThreshold)),
                        outputs |-> Some(outputsOf(r))]
           ELSE job' = [failed |-> FALSE, message |-> Undefined,
                        outputs |-> Some(outputsOf(r))]
    /\ pc' = "exit"
    /\ UNCHANGED <<raw, suspended, agent, state, finalState, result, executed, calls>>

Next ==
    \/ runStart
    \/ fetchPullRequestNode
    \/ filterRelevantFilesNode
    \/ analyzeCodeNode
    \/ formatReviewNode
    \/ postReviewNode
    \/ handleErrorNode
    \/ reviewPullRequestReturn
    \/ reviewPullRequestCatch
    \/ runFinish

Spec == Init /\ [][Next]_vars

\* The workflows that choose a provider, a model and a stack, the other
\* inputs left at their defaults.
SetupInputs ==
    [hasPullRequest    : {TRUE},
     provider          : {"", "openai", "anthropic", "gemini", "ollama"},
     aiModel           : {"", "gpt-4o"},
     stack             : {"", "laravel", "vue"},
     filePatterns      : {<<>>},
     excludePatterns   : {<<>>},
     minScoreThreshold : {<<>>},
     postComment       : {TRUE},
     failOnLowScore    : {FALSE}]

InitSetup ==
    /\ raw \in SetupInputs
    /\ agent = Undefined
    /\ pc = "run"
    /\ state = initialState("", "", 0)
    /\ finalState = Undefined
    /\ result = Undefined
    /\ executed = <<>>
    /\ calls = <<>>
    /\ job = NoJob
    /\ suspended = <<>>

SpecSetup == InitSetup /\ [][Next]_vars

(***************************************************************************)
(* The agent used directly: new GitHubAIReviewAgent(config) followed by    *)
(* reviewPullRequest(owner, repo, pullNumber), outside run()               *)
(***************************************************************************)
AgentConfigs ==
    [provider        : {Undefined, Some("gemini")},
     model           : {Undefined},
     stack           : {Undefined, Some("laravel"), Some("vue")},
     filePatterns    : {<<>>, << <<"*",".","t","s">> >>,
                        << <<"*","*","/","*",".","t","s">> >>},
     excludePatterns : {<<>>},
     postComment     : {Undefined, Some(FALSE)}]

\* no workflow inputs are read when the agent is used directly
NoInputs ==
    [hasPullRequest |-> FALSE, provider |-> "", aiModel |-> "", stack |-> "",
     filePatterns |-> <<>>, excludePatterns |-> <<>>,
     minScoreThreshold |-> <<>>, postComment |-> FALSE,
     failOnLowScore |-> FALSE]

InitAgent ==
    /\ raw = NoInputs
    /\ agent \in {Some(AgentOf(config)) : config \in AgentConfigs}
    /\ pc = "fetchPR"
    /\ state = initialState(Owner, Repo, PullNumber)
    /\ finalState = Undefined
    /\ result = Undefined
    /\ executed = <<>>
    /\ calls = <<>>
    /\ job = NoJob
    /\ suspended = <<>>

NextAgent ==
    \/ fetchPullRequestNode
    \/ filterRelevantFilesNode
    \/ analyzeCodeNode
    \/ formatReviewNode
    \/ postReviewNode
    \/ handleErrorNode
    \/ reviewPullRequestReturn
    \/ reviewPullRequestCatch

SpecAgent == InitAgent /\ [][NextAgent]_vars

\* The agents with the default provider and no forced stack
InitAgentDefault ==
    /\ InitAgent
    /\ agent[1].llm.client = "ChatOpenAI"
    /\ agent[1].forcedStack = Undefined

\* Every await of the pipeline is eventually resumed: a collaborator call
\* returns or fails, and graph.invoke resolves or rejects.
SpecAgentLive ==
    InitAgentDefault /\ [][NextAgent]_vars /\ WF_vars(NextAgent)

\* The agent reviewing the second pull request, with no stack forced and no
\* patterns configured.
InitDetect ==
    /\ raw = NoInputs
    /\ agent \in {Some(AgentOf([provider |-> Undefined, model |-> Undefined,
                                 stack |-> Undefined, filePatterns |-> <<>>,
                                 excludePatterns |-> <<>>,
                                 postComment |-> post])) :
                   post \in {Undefined, Some(FALSE)}}
    /\ pc = "fetchPR"
    /\ state = initialState(Owner, Repo, StackPullNumber)
    /\ finalState = Undefined
    /\ result = Undefined
    /\ executed = <<>>
    /\ calls = <<>>
    /\ job = NoJob
    /\ suspended = <<>>

SpecDetect == InitDetect /\ [][NextAgent]_vars

(***************************************************************************)
(* Two invocations of reviewPullRequest pending on one agent               *)
(***************************************************************************)
\* what one invocation owns: its position in the graph, its AgentState, the
\* final state and result once it has them, and its history
Running ==
    [pc |-> pc, state |-> state, finalState |-> finalState,
     result |-> result, executed |-> executed, calls |-> calls]

\* an invocation at its start: initialState handed to graph.invoke
invocation(owner, repo, pullNumber) ==
    [pc |-> "fetchPR", state |-> initialState(owner, repo, pullNumber),
     finalState |-> Undefined, result |-> Undefined,
     executed |-> <<>>, calls |-> <<>>]

\* the event loop resuming an invocation while the channels of the graph
\* are kept in the compiled graph, shared by every invocation
resumeInvocationSharedState ==
    /\ \E i \in DOMAIN suspended :
         /\ suspended' = [suspended EXCEPT ![i] = Running]
         /\ pc' = suspended[i].pc
         /\ finalState' = suspended[i].finalState
         /\ result' = suspended[i].result
         /\ executed' = suspended[i].executed
         /\ calls' = suspended[i].calls
    /\ UNCHANGED <<raw, agent, state, job>>

\* the event loop leaves the running invocation at an await and resumes
\* another pending one; every invocation keeps what it owns
resumeInvocation ==
    /\ \E i \in DOMAIN suspended :
         /\ suspended' = [suspended EXCEPT ![i] = Running]
         /\ pc' = suspended[i].pc
         /\ state' = suspended[i].state
         /\ finalState' = suspended[i].finalState
         /\ result' = suspended[i].result
         /\ executed' = suspended[i].executed
         /\ calls' = suspended[i].calls
    /\ UNCHANGED <<raw, agent, job>>

InitConcurrent ==
    /\ raw = NoInputs
    /\ agent \in {Some(AgentOf([provider |-> Undefined, model |-> Undefined,
                                 stack |-> Undefined,
                                 filePatterns |-> patterns,
                                 excludePatterns |-> <<>>,
                                 postComment |-> post])) :
                   patterns \in {<<>>, << <<"*",".","t","s">> >>},
                   post \in {Undefined, Some(FALSE)}}
    /\ pc = "fetchPR"
    /\ state = initialState(Owner, Repo, FirstPullNumber)
    /\ finalState = Undefined
    /\ result = Undefined
    /\ executed = <<>>
    /\ calls = <<>>
    /\ job = NoJob
    /\ suspended = <<invocation(Owner, Repo, SecondPullNumber)>>

\* graph.invoke is taken to resolve: a rejection by the graph library is no
\* answer of a collaborator
NextConcurrent ==
    \/ fetchPullRequestNode
    \/ filterRelevantFilesNode
    \/ analyzeCodeNode
    \/ formatReviewNode
    \/ postReviewNode
    \/ handleErrorNode
    \/ reviewPullRequestReturn
    \/ resumeInvocation

SpecConcurrent == InitConcurrent /\ [][NextConcurrent]_vars

(***************************************************************************)
(* The stages as functions of the state: a node entered with any subset of *)
(* the upstream fields populated, the graph running on from there          *)
(***************************************************************************)
\* the values an upstream stage would have left
SomePrData ==
    [title |-> "Add app", body |-> "", number |-> PullNumber,
     files |-> <<AppTsx>>]

SomeReview == parseAIResponse(<<LBrace, Members(GoodReview), RBrace>>)

StageStates ==
    {[initialState(Owner, Repo, PullNumber) EXCEPT
          !.prData = prData, !.relevantFiles = relevantFiles,
          !.aiReview = aiReview, !.reviewComment = reviewComment] :
       prData \in {Undefined, Some(SomePrData)},
       relevantFiles \in {Undefined, Some(<<AppTsx>>)},
       aiReview \in {Undefined, Some(SomeReview)},
       reviewComment \in {Undefined, Some(formatReviewComment(SomeReview))}}

InitStage ==
    /\ raw = NoInputs
    /\ agent \in {Some(AgentOf([provider |-> Undefined, model |-> Undefined,
                                 stack |-> Undefined, filePatterns |-> <<>>,
                                 excludePatterns |-> <<>>,
                                 postComment |-> post])) :
                   post \in {Undefined, Some(FALSE)}}
    /\ pc \in {"filterFiles", "analyzeCode", "formatReview", "postReview"}
    /\ state \in StageStates
    /\ finalState = Undefined
    /\ result = Undefined
    /\ executed = <<>>
    /\ calls = <<>>
    /\ job = NoJob
    /\ suspended = <<>>

NextStage ==
    \/ filterRelevantFilesNode
    \/ analyzeCodeNode
    \/ formatReviewNode
    \/ postReviewNode
    \/ handleErrorNode
    \/ reviewPullRequestReturn
    \/ reviewPullRequestCatch

SpecStage == InitStage /\ [][NextStage]_vars

(***************************************************************************)
(* Properties                                                              *)
(***************************************************************************)
ResultFields == {"success", "recommendation", "score", "issuesCount",
                 "summary", "error"}

\* reviewPullRequest has returned to run()
BackInRun == pc \in {"returned", "exit"} /\ raw.hasPullRequest

CallsOf(ops) == SelectSeq(calls, LAMBDA c : c.op \in ops)

FailedCalls(ops) == SelectSeq(calls, LAMBDA c : c.op \in ops /\ ~c.ok)

Executed(node) == \E i \in 1..Len(executed) : executed[i] = node

\* graph.invoke rejected: a result exists without a final state
GraphThrew == IsDefined(result) /\ ~IsDefined(finalState)

\* C1: reviewPullRequest never throws: whatever the collaborators and the
\* graph execution do, once control is back in run() there is a result
\* record with a boolean success field, and a failure carries its error.
C1_NeverThrows ==
    BackInRun =>
        /\ IsDefined(result)
        /\ DOMAIN result[1] = ResultFields
        /\ result[1].success \in BOOLEAN
        /\ ~result[1].success => IsDefined(result[1].error)

\* the graph execution itself threw and a result was still returned
C1_Witness ==
    /\ pc = "returned"
    /\ GraphThrew
    /\ ~result[1].success
    /\ Executed("analyzeCode")

\* C2: success is false exactly when an error is set in the final state
\* graph.invoke returned; on success the recommendation, score, finding
\* count and summary are those of the stored structured review.
C2_ResultMirrorsState ==
    IsDefined(result) /\ IsDefined(finalState) =>
        LET final == finalState[1]
            r == result[1]
        IN  /\ ~r.success <=> IsDefined(final.error)
            /\ r.success /\ IsDefined(final.aiReview) =>
                 /\ r.recommendation = Some(final.aiReview[1].recommendation)
                 /\ r.score = Some(final.aiReview[1].overall_score)
                 /\ r.issuesCount =
                        Some(Len(final.aiReview[1].detailed_findings))
                 /\ r.summary = Some(final.aiReview[1].summary)
            /\ r.success /\ ~IsDefined(final.aiReview) =>
                 /\ r.recommendation = Undefined
                 /\ r.score = Undefined
                 /\ r.summary = Undefined

\* a successful run whose stored review has score 3 and three findings
C2_Witness ==
    /\ IsDefined(result) /\ IsDefined(finalState)
    /\ result[1].success
    /\ IsDefined(finalState[1].aiReview)
    /\ result[1].issuesCount = Some(3)
    /\ result[1].score = Some(Num(3))

\* the PR-source fetch failed: pulls.get or pulls.listFiles threw
FetchFailed == Len(FailedCalls({"pulls.get", "pulls.listFiles"})) > 0

\* C3: when the PR-source fetch fails the run goes FETCH -> ERROR -> END,
\* no other stage runs, neither the completion provider nor the comment
\* creation is called, and the result is success=false with only the error.
C3_FetchFailure ==
    FetchFailed =>
        /\ pc \in {"handleError", "END", "returned", "exit"}
        /\ executed \in {<<"fetchPR">>, <<"fetchPR", "handleError">>}
        /\ pc = "END" \/ IsDefined(finalState) =>
              executed = <<"fetchPR", "handleError">>
        /\ Len(CallsOf({"llm.invoke", "pulls.createReview"})) = 0
        /\ IsDefined(result) =>
              /\ ~result[1].success
              /\ IsDefined(result[1].error)
              /\ result[1].recommendation = Undefined
              /\ result[1].score = Undefined
              /\ result[1].issuesCount = Undefined
              /\ result[1].summary = Undefined

\* pulls.get succeeded, pulls.listFiles threw, and the run has returned
C3_Witness ==
    /\ FetchFailed
    /\ Len(calls) = 2
    /\ pc = "returned"
    /\ IsDefined(finalState)
    /\ ~result[1].success

\* FILTER ran and kept none of the fetched files
EmptyFilter ==
    /\ Executed("filterFiles")
    /\ IsDefined(state.prData)
    /\ \A i \in 1..Len(state.prData[1].files) :
          ~keepFile(state.prData[1].files[i], getInputs(raw).filePatterns,
                    getInputs(raw).excludePatterns)

\* C4: when the filtered subset is empty the run completes with
\* success=true, no recommendation, score or summary, and a finding count
\* of 0.
C4_EmptyFilterResult ==
    EmptyFilter /\ IsDefined(result) =>
        /\ result[1].success
        /\ result[1].error = Undefined
        /\ result[1].recommendation = Undefined
        /\ result[1].score = Undefined
        /\ result[1].summary = Undefined
        /\ result[1].issuesCount = Some(0)

\* C4 as stated: the finding count of such a run is undefined.
C4_AsStated ==
    EmptyFilter /\ IsDefined(result) =>
        /\ result[1].success
        /\ result[1].recommendation = Undefined
        /\ result[1].score = Undefined
        /\ result[1].summary = Undefined
        /\ result[1].issuesCount = Undefined

\* a PR changing only README.md, no include patterns configured, returned
C4_Witness ==
    /\ EmptyFilter
    /\ IsDefined(result)
    /\ raw.filePatterns = <<>>
    /\ state.prData[1].files = <<ReadmeMd>>

\* C5: when FILTER yields an empty subset the run is marked done without an
\* error and goes from FILTER straight to END: no later stage and no ERROR
\* stage runs, the completion provider is not invoked and no comment is
\* created.
C5_EmptyFilterShortCircuit ==
    EmptyFilter =>
        /\ state.completed
        /\ state.error = Undefined
        /\ executed = <<"fetchPR", "filterFiles">>
        /\ pc \in {"END", "returned", "exit"}
        /\ Len(CallsOf({"llm.invoke", "pulls.createReview"})) = 0

\* two fetched files, both dropped by the filter, and the run has returned
C5_Witness ==
    /\ EmptyFilter
    /\ Len(state.prData[1].files) = 2
    /\ pc = "returned"
    /\ IsDefined(finalState)

\* the text carries one JSON object, with or without prose around it
IsObjectText(txt) ==
    \E i \in 1..Len(txt) :
        /\ txt[i].t = "members"
        /\ i > 1 /\ txt[i - 1].t = "lbrace"
        /\ i < Len(txt) /\ txt[i + 1].t = "rbrace"
        /\ \A j \in 1..Len(txt) : j \notin {i - 1, i, i + 1} => txt[j].t = "prose"

EmbeddedObject(txt) == txt[CHOOSE i \in 1..Len(txt) : txt[i].t = "members"].v

\* the text is a schema-valid review object
ValidReviewText(txt) ==
    IsObjectText(txt) /\ AIReviewSchemaAccepts(EmbeddedObject(txt))

\* the completion provider returned a text, usable or not
ModelReturned(valid) ==
    \E i \in 1..Len(calls) :
        /\ calls[i].op = "llm.invoke"
        /\ calls[i].ok
        /\ ValidReviewText(calls[i].value) = valid

ModelText == calls[CHOOSE i \in 1..Len(calls) : calls[i].op = "llm.invoke"].value

\* graph.invoke returned and no call of the PR source failed
RunCompleted ==
    /\ IsDefined(result)
    /\ IsDefined(finalState)
    /\ Len(FailedCalls({"pulls.get", "pulls.listFiles",
                        "pulls.createReview"})) = 0

\* C6: a model text that is not a valid review object is not an error: the
\* run continues through FORMAT and PUBLISH without entering ERROR, and
\* (comment creation not failing) the result is success=true, score 5,
\* NEEDS_CHANGES, no findings and the manual-review summary.
C6_MalformedOutputAbsorbed ==
    ModelReturned(FALSE) =>
        /\ pc \in {"formatReview", "postReview", "END", "returned", "exit"}
        /\ ~Executed("handleError")
        /\ IsDefined(finalState) =>
              Executed("formatReview") /\ Executed("postReview")
        /\ RunCompleted =>
              result[1] =
                 [success        |-> TRUE,
                  recommendation |-> Some("NEEDS_CHANGES"),
                  score          |-> Some(Num(5)),
                  issuesCount    |-> Some(0),
                  summary        |-> Some("The AI did not return valid JSON. Manual review required."),
                  error          |-> Undefined]

\* the provider answered in plain prose and the run has returned
C6_Witness ==
    /\ ModelReturned(FALSE)
    /\ ModelText = <<Prose>>
    /\ RunCompleted
    /\ result[1].success

\* C7: when a file passes the filter and the provider returns a schema-valid
\* review object, the result is success=true with the object's score,
\* recommendation, number of findings and summary.
C7_ValidReviewResult ==
    ModelReturned(TRUE) /\ RunCompleted =>
        LET o == EmbeddedObject(ModelText) IN
        /\ Len(state.relevantFiles[1]) >= 1
        /\ result[1] =
              [success        |-> TRUE,
               recommendation |-> Some(o.recommendation.v),
               score          |-> Some(o.overall_score.v),
               issuesCount    |-> Some(Len(o.detailed_findings.v)),
               summary        |-> Some(o.summary.v),
               error          |-> Undefined]

\* src/app.tsx modified, the object has score 8, POSITIVE and one finding
C7_Witness ==
    /\ ModelReturned(TRUE)
    /\ RunCompleted
    /\ state.relevantFiles = Some(<<AppTsx>>)
    /\ result[1].score = Some(Num(8))
    /\ result[1].recommendation = Some("POSITIVE")
    /\ result[1].issuesCount = Some(1)

\* C8: a run whose only problem is a malformed model response does not fail
\* the job, whatever fail-on-low-score and min-score-threshold are.
C8_MalformedNeverFailsJob ==
    pc = "exit" /\ ModelReturned(FALSE) /\ RunCompleted => ~job.failed

\* the prefix a stage puts before the message of the failure it caught
StagePrefix(op) ==
    CASE op \in {"pulls.get", "pulls.listFiles"} -> "Gabim gjate marrjes se PR: "
      [] op = "llm.invoke"                        -> "Gabim gjate analizes: "
      [] op = "pulls.createReview"                -> "Gabim gjate postimit: "

\* a collaborator call failed with an Error
FailedWithMessage(i) == ~calls[i].ok /\ calls[i].value.isError

\* C9: when a collaborator call fails with message M the run is terminal (no
\* further collaborator call, no further work stage) and, graph.invoke
\* having returned, the error of the result is the failing stage's prefix
\* followed by M.
C9_ErrorCarriesMessage ==
    \A i \in 1..Len(calls) :
        FailedWithMessage(i) =>
            /\ i = Len(calls)
            /\ pc \in {"handleError", "END", "returned", "exit"}
            /\ IsDefined(result) /\ IsDefined(finalState) =>
                  /\ ~result[1].success
                  /\ result[1].error =
                        Some(StagePrefix(calls[i].op) \o calls[i].value.message)

\* C9 as stated: the error of the result is exactly M.
C9_AsStated ==
    \A i \in 1..Len(calls) :
        FailedWithMessage(i) /\ IsDefined(result) /\ IsDefined(finalState) =>
            result[1].error = Some(calls[i].value.message)

\* the completion call failed with "Bad credentials" and the run returned
C9_Witness ==
    /\ Len(calls) = 3
    /\ calls[3].op = "llm.invoke"
    /\ FailedWithMessage(3)
    /\ calls[3].value.message = "Bad credentials"
    /\ IsDefined(result) /\ IsDefined(finalState)

\* PUBLISH succeeded: it ran and no comment creation failed
PublishSucceeded ==
    Executed("postReview") /\ Len(FailedCalls({"pulls.createReview"})) = 0

\* C10: in a run that reaches PUBLISH the comment is created exactly once,
\* with the formatted report, when the post-comment flag is true and never
\* when it is false; PUBLISH marks the run done when it succeeds; no run
\* creates more than one comment.
C10_PublishOnce ==
    LET created == CallsOf({"pulls.createReview"}) IN
    /\ Len(created) <= 1
    /\ ~Executed("postReview") => Len(created) = 0
    /\ Executed("postReview") =>
          /\ Len(created) = (IF raw.postComment THEN 1 ELSE 0)
          /\ \A i \in 1..Len(created) :
                /\ created[i].with.body = state.reviewComment[1]
                /\ created[i].with.body =
                      formatReviewComment(state.aiReview[1])
    /\ PublishSucceeded => state.completed /\ state.error = Undefined

\* PUBLISH ran with the flag set, created the comment and marked the run done
C10_Witness ==
    /\ Executed("postReview")
    /\ raw.postComment
    /\ Len(CallsOf({"pulls.createReview"})) = 1
    /\ PublishSucceeded
    /\ state.completed


PublishFailed == Len(FailedCalls({"pulls.createReview"})) > 0

\* C11: when post-comment is true and creating the review comment fails, the
\* failure is surfaced: the state the graph ends in holds the structured
\* review and the formatted report together with an error, postReview is the
\* last node executed, and the result is success=false with that error.
C11_PublishFailureSurfaced ==
    PublishFailed =>
        /\ agent[1].postComment
        /\ IsDefined(state.aiReview)
        /\ TruthyStr(state.reviewComment)
        /\ TruthyStr(state.error)
        /\ executed[Len(executed)] = "postReview"
        /\ pc \in {"END", "returned", "exit"}
        /\ IsDefined(result) =>
             /\ ~result[1].success
             /\ result[1].error = state.error
             /\ finalState = Some(state)

\* the publish call failed and reviewPullRequest has returned
C11_Witness ==
    /\ PublishFailed
    /\ raw.postComment
    /\ IsDefined(result)
    /\ IsDefined(finalState[1].aiReview)
    /\ IsDefined(finalState[1].reviewComment)


ScoreInRange(score) == score >= Num(1) /\ score <= Num(10)

KnownRecommendation(r) == r \in {"POSITIVE", "NEGATIVE", "NEEDS_CHANGES"}

\* the completion provider returned an object whose score lies outside
\* [1,10] or whose recommendation is not one of the three
ModelReturnedOutOfRange ==
    \E i \in 1..Len(calls) :
        /\ calls[i].op = "llm.invoke"
        /\ calls[i].ok
        /\ IsObjectText(calls[i].value)
        /\ LET o == EmbeddedObject(calls[i].value)
           IN  \/ o.overall_score.ty = "number"
                  /\ ~ScoreInRange(o.overall_score.v)
               \/ o.recommendation.ty = "string"
                  /\ ~KnownRecommendation(o.recommendation.v)

\* C12: in every reachable state a structured review held in the run state
\* (and so any score or recommendation of a result) has overall_score within
\* [1,10] and recommendation among POSITIVE, NEGATIVE, NEEDS_CHANGES,
\* whatever text the model returned.
C12_ReviewInRange ==
    /\ IsDefined(state.aiReview) =>
         /\ ScoreInRange(state.aiReview[1].overall_score)
         /\ KnownRecommendation(state.aiReview[1].recommendation)
    /\ IsDefined(result) =>
         /\ IsDefined(result[1].score) => ScoreInRange(result[1].score[1])
         /\ IsDefined(result[1].recommendation) =>
              KnownRecommendation(result[1].recommendation[1])

\* the model returned an out-of-range object, a review was stored and
\* reported in a successful result
C12_Witness ==
    /\ ModelReturnedOutOfRange
    /\ IsDefined(state.aiReview)
    /\ IsDefined(result)
    /\ IsDefined(result[1].score)


\* the min-score-threshold the workflow configured: 7 when the input is not
\* given, else the number written
ConfiguredThreshold ==
    IF raw.minScoreThreshold = <<>> THEN 7
    ELSE LeadingDigits(raw.minScoreThreshold, 0)

\* C13: the job is failed for low quality exactly when fail-on-low-score is
\* true and the review score is below the configured min-score-threshold (7
\* when not given); for every configured threshold, 0 included, a score at
\* or above it never fails the job.
C13_LowScoreGate ==
    (pc = "exit" /\ IsDefined(result) /\ result[1].success) =>
        (job.failed <=> /\ raw.failOnLowScore
                        /\ IsDefined(result[1].score)
                        /\ result[1].score[1] < Num(ConfiguredThreshold))

ScoreOutputs == {NumToString(n) : n \in Num(1)..Num(10)}

\* C14: whenever the action finishes a review without failing, the
\* review-score output is a number from 1 to 10 and the recommendation
\* output is one of POSITIVE, NEEDS_CHANGES, NEGATIVE, the no-relevant-files
\* short-circuit included.
C14_OutputsInRange ==
    (pc = "exit" /\ ~job.failed) =>
        /\ IsDefined(job.outputs)
        /\ job.outputs[1].reviewScore \in ScoreOutputs
        /\ job.outputs[1].recommendation \in
               {"POSITIVE", "NEEDS_CHANGES", "NEGATIVE"}


\* the default model of a provider, as documented
ProviderDefaultModel(provider) ==
    CASE provider = "anthropic" -> "claude-3-opus-20240229"
      [] provider = "gemini"    -> "gemini-pro"
      [] provider = "ollama"    -> "llama3"
      [] provider \in {"", "openai"} -> "gpt-4o-mini"

\* C15: when the ai-model input is not given, the model used is the selected
\* provider's default: gpt-4o-mini for openai, claude-3-opus-20240229 for
\* anthropic, gemini-pro for gemini, llama3 for ollama.
C15_ProviderDefaultModel ==
    (IsDefined(agent) /\ raw.aiModel = "") =>
        agent[1].llm.model = ProviderDefaultModel(raw.provider)

PromptCalls == CallsOf({"llm.invoke"})

\* C16: a stack input forces that stack: the role in the prompt is that
\* stack's role whatever the changed files contain; a blank input uses the
\* stack detected from the files under review.
C16_StackInputForces ==
    \A i \in 1..Len(PromptCalls) :
        PromptCalls[i].with.role =
            IF raw.stack # "" THEN stackRole(raw.stack)
            ELSE stackRole(detectStack(PromptCalls[i].with.files))

\* C17: when the agent configuration carries a forced stack, the role in the
\* prompt is the role of the forced stack for every file set; when it
\* carries none, the role is the role of the stack detected from the files
\* under review.
C17_ForcedStackRole ==
    \A i \in 1..Len(PromptCalls) :
        PromptCalls[i].with.role =
            IF IsDefined(agent[1].forcedStack)
            THEN stackRole(agent[1].forcedStack[1])
            ELSE stackRole(detectStack(PromptCalls[i].with.files))

\* a prompt was built under a forced stack that differs from the detected one
C17_Witness ==
    /\ Len(PromptCalls) > 0
    /\ IsDefined(agent[1].forcedStack)
    /\ detectStack(PromptCalls[1].with.files) # agent[1].forcedStack[1]
    /\ IsDefined(result)


\* the filter node has run on a fetched pull request
Filtered == Executed("filterFiles") /\ IsDefined(state.prData)

FetchedFiles == state.prData[1].files

\* the filtered subset (none is stored when it is empty)
KeptFiles ==
    IF IsDefined(state.relevantFiles) THEN Range(state.relevantFiles[1])
    ELSE {}

\* the name matches the glob pattern, "*" being any run of characters
GlobMatches(pattern, name) == regexTest(globToRegex(pattern), name)

MatchesAny(name, patterns) ==
    \E p \in Range(patterns) : GlobMatches(p, name)

\* the reference decision for an added or modified file
ReferenceDecision(name, include, exclude) ==
    IF exclude # <<>> /\ MatchesAny(name, exclude) THEN FALSE
    ELSE IF include # <<>> THEN MatchesAny(name, include)
    ELSE \E ext \in DefaultExtensions : EndsWith(name, <<".">> \o ext)

\* C18: for every added or modified file the filter decision equals the
\* reference: dropped if the exclude list is non-empty and the name matches
\* an exclude pattern (exclude wins over include); otherwise, with a
\* non-empty include list, kept iff the name matches an include pattern;
\* otherwise kept iff the name ends in a built-in default extension.
C18_FilterDecision ==
    Filtered =>
        \A i \in 1..Len(FetchedFiles) :
            FetchedFiles[i].status \in {"added", "modified"} =>
                (FetchedFiles[i] \in KeptFiles <=>
                    ReferenceDecision(FetchedFiles[i].filename,
                                      agent[1].filePatterns,
                                      agent[1].excludePatterns))

\* of two added or modified files that match an include pattern, the one
\* that also matches an exclude pattern was dropped and the other kept
C18_Witness ==
    /\ Filtered
    /\ \E i, j \in 1..Len(FetchedFiles) :
         /\ FetchedFiles[i].status \in {"added", "modified"}
         /\ MatchesAny(FetchedFiles[i].filename, agent[1].filePatterns)
         /\ MatchesAny(FetchedFiles[i].filename, agent[1].excludePatterns)
         /\ FetchedFiles[i] \notin KeptFiles
         /\ FetchedFiles[j].status \in {"added", "modified"}
         /\ MatchesAny(FetchedFiles[j].filename, agent[1].filePatterns)
         /\ FetchedFiles[j] \in KeptFiles

RECURSIVE SegmentMatches(_, _)
SegmentMatches(pattern, name) ==
    IF pattern = <<>> THEN name = <<>>
    ELSE IF Len(pattern) >= 2 /\ pattern[1] = "*" /\ pattern[2] = "*"
    THEN \/ SegmentMatches(SubSeq(pattern, 3, Len(pattern)), name)
         \/ name # <<>> /\ SegmentMatches(pattern, Tail(name))
    ELSE IF Head(pattern) = "*"
    THEN \/ SegmentMatches(Tail(pattern), name)
         \/ name # <<>> /\ Head(name) # "/"
                        /\ SegmentMatches(pattern, Tail(name))
    ELSE IF Head(pattern) = "?"
    THEN name # <<>> /\ Head(name) # "/"
                     /\ SegmentMatches(Tail(pattern), Tail(name))
    ELSE name # <<>> /\ Head(name) = Head(pattern)
                     /\ SegmentMatches(Tail(pattern), Tail(name))

\* C20: the glob matcher used by the filter matches a single * only within
\* one path segment and ** across segments: with an include list alone, an
\* added or modified file is kept iff some include pattern matches its name
\* in that sense ("*.ts" keeps a.ts and not a/b.ts, "**/*.ts" keeps a/b.ts).
C20_SegmentGlob ==
    (Filtered /\ agent[1].filePatterns # <<>>
              /\ agent[1].excludePatterns = <<>>) =>
        \A i \in 1..Len(FetchedFiles) :
            FetchedFiles[i].status \in {"added", "modified"} =>
                (FetchedFiles[i] \in KeptFiles <=>
                    \E p \in Range(agent[1].filePatterns) :
                        SegmentMatches(p, FetchedFiles[i].filename))


\* the filtered subset as a list (none is stored when it is empty)
KeptList ==
    IF IsDefined(state.relevantFiles) THEN state.relevantFiles[1] ELSE <<>>

\* sub is seq with some elements left out, the others in their order
RECURSIVE IsSubsequence(_, _)
IsSubsequence(sub, seq) ==
    IF sub = <<>> THEN TRUE
    ELSE IF seq = <<>> THEN FALSE
    ELSE IF Head(sub) = Head(seq) THEN IsSubsequence(Tail(sub), Tail(seq))
    ELSE IsSubsequence(sub, Tail(seq))

\* C21: the filter is order-preserving and idempotent: its result is a
\* subsequence of the fetched list in input order, and filtering the result
\* again with the same patterns returns the identical list.
C21_FilterIdempotent ==
    Filtered =>
        /\ IsSubsequence(KeptList, FetchedFiles)
        /\ filterFiles(KeptList, agent[1].filePatterns,
                       agent[1].excludePatterns) = KeptList

\* under configured include and exclude patterns a renamed and a modified
\* file were both kept, in input order
C21_Witness ==
    /\ Filtered
    /\ agent[1].filePatterns # <<>>
    /\ agent[1].excludePatterns # <<>>
    /\ Len(FetchedFiles) = 2
    /\ Len(KeptList) = 2
    /\ FetchedFiles[1].status = "renamed"
    /\ FetchedFiles[2].status = "modified"


\* the priority order of the detection rules, as a table
RuleTags == <<"laravel", "wordpress", "django", "flask",
              "next", "nuxt", "react", "vue", "vue">>

Declares(files, word) ==
    \E f \in Range(files) :
        EndsWith(f.filename, PackageJson) /\ word \in PatchWords(f)

HasComponent(files) ==
    \E f \in Range(files) : EndsWith(f.filename, <<".","v","u","e">>)

\* rule k finds its evidence in the files
RuleHolds(k, files) ==
    CASE k = 1 -> \E f \in Range(files) :
                      /\ EndsWith(f.filename, ComposerJson.filename)
                      /\ "laravel/framework" \in PatchWords(f)
      [] k = 2 -> \E f \in Range(files) :
                      StartsWith(f.filename, SubSeq(WpPhp.filename, 1, 11))
      [] k = 3 -> \E f \in Range(files) :
                      EndsWith(f.filename, ManagePy.filename)
      [] k = 4 -> \E f \in Range(files) :
                      /\ EndsWith(f.filename, <<".","p","y">>)
                      /\ "flask" \in PatchWords(f)
      [] k = 5 -> Declares(files, "next")
      [] k = 6 -> Declares(files, "nuxt")
      [] k = 7 -> Declares(files, "react")
      [] k = 8 -> Declares(files, "vue")
      [] k = 9 -> HasComponent(files)

\* the tag of the first rule that holds, generic when none does
FirstMatch(files) ==
    LET holding == {k \in 1..Len(RuleTags) : RuleHolds(k, files)}
    IN  IF holding = {} THEN "generic" ELSE RuleTags[Min(holding)]

\* C22: detection returns the one tag chosen by the fixed priority order,
\* first match wins: the prompt's role is the role of that tag; a Vue
\* single-file component together with a package manifest declaring nuxt
\* gives nuxt, not vue (never vue; nuxt unless a rule of higher priority
\* also holds), and evidence matching no rule gives generic.
C22_DetectionPriority ==
    \A i \in 1..Len(PromptCalls) :
        LET files == PromptCalls[i].with.files
            role == PromptCalls[i].with.role
        IN  /\ role = stackRole(FirstMatch(files))
            /\ (HasComponent(files) /\ Declares(files, "nuxt")) =>
                   /\ role # stackRole("vue")
                   /\ (\A k \in 1..5 : ~RuleHolds(k, files)) =>
                          role = stackRole("nuxt")
            /\ (\A k \in 1..Len(RuleTags) : ~RuleHolds(k, files)) =>
                   role = stackRole("generic")

\* a prompt was built for a component file and a manifest declaring nuxt
C22_Witness ==
    /\ Len(PromptCalls) > 0
    /\ Range(PromptCalls[1].with.files) = {CVue, NuxtManifest}
    /\ PromptCalls[1].with.role = stackRole("nuxt")
    /\ IsDefined(result)


LastExecuted == executed[Len(executed)]

\* the stage after FETCH, FILTER, ANALYZE and FORMAT in the sequence
StageAfter ==
    [fetchPR |-> "filterFiles", filterFiles |-> "analyzeCode",
     analyzeCode |-> "formatReview", formatReview |-> "postReview"]

\* a stage has completed and the graph has not yet handed back its state
BetweenStages == executed # <<>> /\ pc \in Nodes \cup {"END"}

\* C23: after each of FETCH, FILTER, ANALYZE and FORMAT the next state is
\* ERROR if an error is set (error before done), else END if the run is
\* done, else the next stage in sequence; PUBLISH and ERROR go to END
\* unconditionally.
C23_TransitionRule ==
    BetweenStages =>
        pc = IF LastExecuted \in {"postReview", "handleError"} THEN "END"
             ELSE IF TruthyStr(state.error) THEN "handleError"
             ELSE IF state.completed THEN "END"
             ELSE StageAfter[LastExecuted]

\* PUBLISH has ended with an error set, and the run is at END all the same
C23_Witness ==
    /\ pc = "END"
    /\ LastExecuted = "postReview"
    /\ TruthyStr(state.error)
    /\ ~state.completed


StageOrder ==
    <<"fetchPR", "filterFiles", "analyzeCode", "formatReview", "postReview">>

CallOrder ==
    <<"pulls.get", "pulls.listFiles", "llm.invoke", "pulls.createReview">>

\* the stages executed so far, ERROR left out
StagesExecuted == SelectSeq(executed, LAMBDA n : n # "handleError")

CallOps == [i \in 1..Len(calls) |-> calls[i].op]

\* the stage during which a collaborator is called
StageOf(op) ==
    CASE op \in {"pulls.get", "pulls.listFiles"} -> "fetchPR"
      [] op = "llm.invoke"                      -> "analyzeCode"
      [] op = "pulls.createReview"              -> "postReview"

MaxStageExecutions == Cardinality(Nodes)

\* no node has been executed twice
NoNodeRepeated ==
    \A i, j \in 1..Len(executed) : executed[i] = executed[j] => i = j

\* C25: every run terminates: each collaborator call eventually returning
\* or failing, reviewPullRequest returns a result; the pipeline executes at
\* most six stages, none of them twice (the stage graph has no cycle), and
\* a result built from the graph's final state is built at END.
C25_Terminates ==
    /\ [](Len(executed) <= MaxStageExecutions /\ NoNodeRepeated)
    /\ <>(/\ IsDefined(result)
          /\ pc = "returned"
          /\ IsDefined(finalState) => finalState = Some(state))

\* reviewPullRequest has returned after FETCH, FILTER, ANALYZE and ERROR
C25_Witness ==
    /\ IsDefined(result)
    /\ IsDefined(finalState)
    /\ executed = <<"fetchPR", "filterFiles", "analyzeCode", "handleError">>


CompletionFailed == Len(FailedCalls({"llm.invoke"})) > 0

\* C26: the completion provider is invoked at most once per run, without
\* retry: when that call throws, ANALYZE produces an error, the run goes to
\* ERROR and then END, FORMAT and PUBLISH never execute, no comment is
\* created, and the result is success=false.
C26_SingleCompletionCall ==
    /\ Len(PromptCalls) <= 1
    /\ CompletionFailed =>
         /\ TruthyStr(state.error)
         /\ ~IsDefined(state.aiReview)
         /\ ~Executed("formatReview")
         /\ ~Executed("postReview")
         /\ Len(CallsOf({"pulls.createReview"})) = 0
         /\ pc = "handleError" =>
                executed = <<"fetchPR", "filterFiles", "analyzeCode">>
         /\ pc = "END" =>
                executed = <<"fetchPR", "filterFiles", "analyzeCode",
                             "handleError">>
         /\ pc \in {"handleError", "END", "returned", "exit"}
         /\ IsDefined(result) => ~result[1].success
         /\ pc = "exit" => job.failed

\* the completion call threw and the run was reported as failed
C26_Witness ==
    /\ CompletionFailed
    /\ pc = "exit"
    /\ IsDefined(finalState)
    /\ Executed("handleError")


\* C27: the prompt builder and the completion provider are only reached
\* with a non-empty filtered list: every prompt carries the filtered files,
\* at least one, and no completion call is made in a run whose filter
\* produced none.
C27_NoPromptForEmptySubset ==
    /\ \A i \in 1..Len(PromptCalls) :
           /\ Filtered
           /\ PromptCalls[i].with.files # <<>>
           /\ PromptCalls[i].with.files = KeptList
    /\ (Filtered /\ KeptList = <<>>) => Len(PromptCalls) = 0

\* the filter produced no file out of two and the run has ended without a
\* completion call
C27_Witness ==
    /\ Filtered
    /\ Len(FetchedFiles) = 2
    /\ KeptList = <<>>
    /\ agent[1].filePatterns # <<>>
    /\ pc = "exit"
    /\ Len(PromptCalls) = 0


\* the text has no "{" with a "}" after it
NoBraces(txt) ==
    \A i \in Positions(txt, "lbrace") :
        \A j \in Positions(txt, "rbrace") : j < i

\* the text from the first "{" to the last "}" is one JSON object
SpanIsObject(txt) ==
    /\ ~NoBraces(txt)
    /\ LET first == Min(Positions(txt, "lbrace"))
           last == Max(Positions(txt, "rbrace"))
       IN  last = first + 2 /\ txt[first + 1].t = "members"

SpanObject(txt) == txt[Min(Positions(txt, "lbrace")) + 1].v

\* the object breaks the schema in one of the listed ways
ListedViolation(o) ==
    \/ o.overall_score.ty # "number"
    \/ ~ScoreInRange(o.overall_score.v)
    \/ o.recommendation.ty # "string"
    \/ ~KnownRecommendation(o.recommendation.v)
    \/ \E field \in DOMAIN o : o[field].ty = "missing"

\* one of the failures the parser meets
ParseFailure(txt) ==
    \/ NoBraces(txt)
    \/ ~SpanIsObject(txt)
    \/ ListedViolation(SpanObject(txt))

\* C28: the parser is total and never raises: whatever text the model
\* returned, a review is stored and ANALYZE does not end in an error; on a
\* failure (no braces, no well-formed JSON between the first "{" and the
\* last "}", or a schema violation: score out of range, unknown
\* recommendation, missing field) the stored review is the fixed fallback:
\* score 5, NEEDS_CHANGES, no findings, no positive aspects, exactly one
\* area for improvement.
C28_ParserTotal ==
    \A i \in 1..Len(PromptCalls) :
        PromptCalls[i].ok =>
            /\ IsDefined(state.aiReview)
            /\ ~Executed("handleError")
            /\ ParseFailure(PromptCalls[i].value) =>
                 LET review == state.aiReview[1] IN
                 /\ review.overall_score = Num(5)
                 /\ review.recommendation = "NEEDS_CHANGES"
                 /\ review.detailed_findings = <<>>
                 /\ review.positive_aspects = <<>>
                 /\ Len(review.areas_for_improvement) = 1

\* the fallback was stored for a JSON object that breaks the schema
C28_Witness ==
    /\ Len(PromptCalls) = 1
    /\ PromptCalls[1].ok
    /\ SpanIsObject(PromptCalls[1].value)
    /\ ListedViolation(SpanObject(PromptCalls[1].value))
    /\ IsDefined(state.aiReview)
    /\ state.aiReview[1].overall_score = Num(5)
    /\ pc = "END"


\* position i of the text holds a JSON review object in its braces that
\* keeps to the schema
ValidObjectAt(txt, i) ==
    /\ i > 1 /\ i < Len(txt)
    /\ txt[i].t = "members"
    /\ txt[i - 1].t = "lbrace"
    /\ txt[i + 1].t = "rbrace"
    /\ ~ListedViolation(txt[i].v)

\* the stored review is the review the object denotes
StoredReviewIs(o) ==
    /\ IsDefined(state.aiReview)
    /\ state.aiReview[1].overall_score = o.overall_score.v
    /\ state.aiReview[1].recommendation = o.recommendation.v
    /\ state.aiReview[1].summary = o.summary.v
    /\ Len(state.aiReview[1].detailed_findings) = Len(o.detailed_findings.v)
    /\ \A k \in 1..Len(o.detailed_findings.v) :
           state.aiReview[1].detailed_findings[k].file =
               o.detailed_findings.v[k].v.file.v

\* C29 as stated: for every model text made of prose, a schema-valid JSON
\* review object and prose again, whatever the prose holds, the parser
\* returns the review of the embedded object.
C29_AsStated ==
    \A c \in 1..Len(PromptCalls) :
        PromptCalls[c].ok =>
            \A i \in 1..Len(PromptCalls[c].value) :
                (/\ ValidObjectAt(PromptCalls[c].value, i)
                 /\ \A j \in 1..Len(PromptCalls[c].value) :
                        j # i => PromptCalls[c].value[j].t # "members")
                    => StoredReviewIs(PromptCalls[c].value[i].v)

\* C29: for every model text made of prose without braces, a schema-valid
\* JSON review object and prose without braces again, the parser takes the
\* span from the first "{" to the last "}" and returns the review of the
\* embedded object, not the fallback.
C29_ProseAroundObject ==
    \A c \in 1..Len(PromptCalls) :
        PromptCalls[c].ok =>
            \A i \in 1..Len(PromptCalls[c].value) :
                (/\ ValidObjectAt(PromptCalls[c].value, i)
                 /\ \A j \in 1..Len(PromptCalls[c].value) :
                        j \notin {i - 1, i, i + 1} =>
                            PromptCalls[c].value[j].t = "prose")
                    => StoredReviewIs(PromptCalls[c].value[i].v)

\* a valid object with prose before and after it was returned and its
\* review stored
C29_Witness ==
    /\ Len(PromptCalls) = 1
    /\ PromptCalls[1].ok
    /\ Len(PromptCalls[1].value) = 5
    /\ PromptCalls[1].value[1].t = "prose"
    /\ PromptCalls[1].value[5].t = "prose"
    /\ ValidObjectAt(PromptCalls[1].value, 3)
    /\ StoredReviewIs(PromptCalls[1].value[3].v)


\* the stored review is one the parser accepted, not its fallback
AcceptedReview ==
    /\ IsDefined(state.aiReview)
    /\ state.aiReview[1] # FallbackReview

\* C30 as stated: every structured review accepted by the parser has an
\* integer overall_score, and every finding's line, when present, is a
\* positive integer.
C30_AsStated ==
    AcceptedReview =>
        /\ IsInteger(state.aiReview[1].overall_score)
        /\ \A k \in 1..Len(state.aiReview[1].detailed_findings) :
               LET line == state.aiReview[1].detailed_findings[k].line
               IN  IsDefined(line) => IsInteger(line[1]) /\ line[1] > 0

\* C30: the parser checks the score of a review only as a number within
\* [1,10] and a finding's line only as a number: a schema-valid object is
\* stored with the score and the lines it carries, a non-integer score such
\* as 7.5 and a line 0 included.
C30_NumbersAsGiven ==
    \A c \in 1..Len(PromptCalls) :
        (/\ PromptCalls[c].ok
         /\ SpanIsObject(PromptCalls[c].value)
         /\ ~ListedViolation(SpanObject(PromptCalls[c].value))) =>
            LET o == SpanObject(PromptCalls[c].value) IN
            /\ IsDefined(state.aiReview)
            /\ state.aiReview[1].overall_score = o.overall_score.v
            /\ Len(state.aiReview[1].detailed_findings)
                   = Len(o.detailed_findings.v)
            /\ \A k \in 1..Len(o.detailed_findings.v) :
                   state.aiReview[1].detailed_findings[k].line =
                       IF o.detailed_findings.v[k].v.line.ty = "number"
                       THEN Some(o.detailed_findings.v[k].v.line.v)
                       ELSE Undefined

\* a review with the score 7.5 was accepted and stored
C30_Witness ==
    /\ AcceptedReview
    /\ ~IsInteger(state.aiReview[1].overall_score)
    /\ IsDefined(result)
    /\ result[1].score = Some(Num(7) + 1)


\* the findings of one file stand next to each other in the list
Contiguous(findings) ==
    \A i, j, k \in 1..Len(findings) :
        (i < j /\ j < k /\ findings[i].file = findings[k].file) =>
            findings[j].file = findings[i].file

\* the lists holding the same findings in some order
Arrangements(findings) ==
    LET n == Len(findings)
        perms == {p \in [1..n -> 1..n] : \A i, j \in 1..n :
                                             p[i] = p[j] => i = j}
    IN  {[i \in 1..n |-> findings[p[i]]] : p \in perms}

\* the report is the rendering of the review with its findings in the
\* order given
ReportLists(findings) ==
    /\ IsDefined(state.reviewComment)
    /\ state.reviewComment[1] =
           formatReviewComment([state.aiReview[1] EXCEPT
                                    !.detailed_findings = findings])

\* C31 as stated: the findings section of every report lists the findings
\* of one file contiguously, whatever order the model listed them in.
C31_AsStated ==
    IsDefined(state.reviewComment) =>
        \E g \in Arrangements(state.aiReview[1].detailed_findings) :
            Contiguous(g) /\ ReportLists(g)

\* C31: the report lists the findings one block each in the order the
\* model listed them, without grouping: the findings of one file are
\* contiguous in the report exactly when the model listed them so.
C31_FindingsInModelOrder ==
    IsDefined(state.reviewComment) =>
        /\ ReportLists(state.aiReview[1].detailed_findings)
        /\ \A g \in Arrangements(state.aiReview[1].detailed_findings) :
               ReportLists(g) => g = state.aiReview[1].detailed_findings

\* a report was rendered for findings of b.ts, a.ts and b.ts, in this order
C31_Witness ==
    /\ IsDefined(state.reviewComment)
    /\ Len(state.aiReview[1].detailed_findings) = 3
    /\ ~Contiguous(state.aiReview[1].detailed_findings)
    /\ IsDefined(result)


\* the collaborator calls of an invocation for one operation
CallsIn(x, op) == SelectSeq(x.calls, LAMBDA c : c.op = op)

\* what reviewPullRequest returns when it runs alone on the agent and its
\* collaborators answer as logged
AloneResult(log) ==
    LET failures == SelectSeq(log, LAMBDA c : ~c.ok)
        prompts  == SelectSeq(log, LAMBDA c : c.op = "llm.invoke")
        none     == [success |-> TRUE, recommendation |-> Undefined,
                     score |-> Undefined, issuesCount |-> Some(0),
                     summary |-> Undefined, error |-> Undefined]
    IN  IF failures # <<>>
        THEN [success |-> FALSE, recommendation |-> Undefined,
              score |-> Undefined, issuesCount |-> Undefined,
              summary |-> Undefined,
              error |-> Some(StagePrefix(failures[1].op)
                             \o errMessage(failures[1].value))]
        ELSE IF prompts = <<>> THEN none
        ELSE LET review == parseAIResponse(prompts[1].value)
             IN  [none EXCEPT
                     !.recommendation = Some(review.recommendation),
                     !.score = Some(review.overall_score),
                     !.issuesCount = Some(Len(review.detailed_findings)),
                     !.summary = Some(review.summary)]

\* an invocation works on the pull request it was called for and on the
\* answers its own calls received
OwnData(x, pullNumber) ==
    LET ref == <<Owner, Repo, pullNumber>> IN
    /\ x.state.owner = Owner /\ x.state.repo = Repo
    /\ x.state.pullNumber = pullNumber
    /\ \A i \in 1..Len(x.calls) :
           /\ x.calls[i].op \in {"pulls.get", "pulls.listFiles"} =>
                  x.calls[i].with = ref
           /\ x.calls[i].op = "pulls.createReview" =>
                  /\ x.calls[i].with.ref = ref
                  /\ CallsIn(x, "llm.invoke") # <<>>
                  /\ x.calls[i].with.body = formatReviewComment(
                         parseAIResponse(CallsIn(x, "llm.invoke")[1].value))
           /\ (x.calls[i].op = "llm.invoke"
               /\ CallsIn(x, "pulls.listFiles") # <<>>) =>
                  x.calls[i].with.files =
                      filterFiles(CallsIn(x, "pulls.listFiles")[1].value,
                                  agent[1].filePatterns,
                                  agent[1].excludePatterns)
    /\ IsDefined(x.state.prData) =>
           /\ x.state.prData[1].number = pullNumber
           /\ CallsIn(x, "pulls.listFiles") # <<>>
           /\ x.state.prData[1].files = CallsIn(x, "pulls.listFiles")[1].value
    /\ (IsDefined(x.result) /\ IsDefined(x.finalState)) =>
           x.result[1] = AloneResult(x.calls)

\* the two invocations, whichever of them is running
EachOwnsItsData ==
    /\ Len(suspended) = 1
    /\ \/ OwnData(Running, FirstPullNumber)
          /\ OwnData(suspended[1], SecondPullNumber)
       \/ OwnData(Running, SecondPullNumber)
          /\ OwnData(suspended[1], FirstPullNumber)

\* a step touches what the running invocation owns and nothing of a
\* suspended one; resuming moves every invocation whole
IsolatedStep ==
    \/ suspended' = suspended
    \/ /\ Running' = suspended[1]
       /\ suspended' = <<Running>>

\* C32: two reviewPullRequest invocations pending on one agent for two
\* pull requests are independent: under every interleaving of their stages
\* and collaborator calls a step of one leaves the other's state, position,
\* history and result untouched, each works only on its own pull request
\* and its own collaborators' answers, and each result is the result
\* reviewPullRequest returns alone for the same answers.
\* (A pending invocation can always be resumed, so every reachable state
\* is the first state of some step.)
C32_ConcurrentIndependent == [][IsolatedStep /\ EachOwnsItsData]_vars

\* one invocation has returned its review while the other, begun before,
\* is still between two stages
C32_Witness ==
    /\ Len(suspended) = 1
    /\ IsDefined(result) /\ IsDefined(finalState) /\ result[1].success
    /\ IsDefined(result[1].score)
    /\ suspended[1].pc = "analyzeCode"
    /\ suspended[1].state.pullNumber # state.pullNumber


\* the upstream fields a stage requires
Required ==
    [filterFiles  |-> {"prData"},
     analyzeCode  |-> {"relevantFiles", "prData"},
     formatReview |-> {"aiReview"},
     postReview   |-> {"reviewComment"}]

\* the stage the run was entered at has run without one of its fields
EnteredWithout ==
    /\ executed # <<>>
    /\ executed[1] \in DOMAIN Required
    /\ \E field \in Required[executed[1]] : ~IsDefined(state[field])

\* C33: a stage invoked without its required upstream data (FILTER without
\* PR data, ANALYZE without filtered files or PR data, FORMAT without a
\* structured review, PUBLISH without a report) produces a terminal error:
\* an error is set, no collaborator call is made, no further work stage
\* runs, and the result of the run is success=false with that error.
C33_MissingDataIsTerminalError ==
    EnteredWithout =>
        /\ TruthyStr(state.error)
        /\ calls = <<>>
        /\ \A i \in 2..Len(executed) : executed[i] = "handleError"
        /\ pc \in {"handleError", "END", "returned"}
        /\ (IsDefined(result) /\ IsDefined(finalState)) =>
               /\ ~result[1].success
               /\ result[1].error = state.error
               /\ \A f \in {"recommendation", "score", "issuesCount",
                            "summary"} : result[1][f] = Undefined

\* ANALYZE was entered with PR data but no filtered files, and the run has
\* returned its failure
C33_Witness ==
    /\ EnteredWithout
    /\ executed[1] = "analyzeCode"
    /\ IsDefined(state.prData)
    /\ IsDefined(result) /\ IsDefined(finalState)
    /\ result[1].error = Some("Missing data for analysis")


\* the step taken by the ERROR state
ErrorStep == pc = "handleError" /\ executed' = Append(executed, "handleError")

\* C34: the ERROR state does bookkeeping only: it sets the done flag and
\* leaves the error message and every other RunState field unchanged, and it
\* calls no collaborator; an error once set is never replaced, so the error
\* of the final result is the first and only error produced in the run.
C34_ErrorStateBookkeeping ==
    [][/\ ErrorStep =>
              /\ TruthyStr(state.error)
              /\ state' = [state EXCEPT !.completed = TRUE]
              /\ calls' = calls
       /\ TruthyStr(state.error) => state'.error = state.error
       /\ (TruthyStr(state.error) /\ ~IsDefined(finalState)
           /\ IsDefined(finalState')) =>
              /\ ~result'[1].success
              /\ result'[1].error = state.error]_vars

\* a failed fetch went through the ERROR state and the run returned its error
C34_Witness ==
    /\ executed = <<"fetchPR", "handleError">>
    /\ state.completed
    /\ IsDefined(result) /\ IsDefined(finalState)
    /\ result[1].error = Some("Gabim gjate marrjes se PR: Bad credentials")


WorkStages == {"fetchPR", "filterFiles", "analyzeCode", "formatReview",
               "postReview"}

\* the run is done or has an error
Settled == state.completed \/ TruthyStr(state.error)

\* C35: once the done flag is true or an error is set, no work stage
\* (FETCH, FILTER, ANALYZE, FORMAT, PUBLISH) executes, no collaborator is
\* called and RunState is not changed any more, but for the done flag the
\* ERROR state sets; the state is only read to build the final result.
C35_SettledStateOnlyRead ==
    [][Settled =>
          /\ pc \notin WorkStages
          /\ calls' = calls
          /\ \/ executed' = executed /\ state' = state
             \/ /\ executed' = Append(executed, "handleError")
                /\ state' = [state EXCEPT !.completed = TRUE]
          /\ IsDefined(finalState') => finalState' = Some(state)]_vars

\* the empty filter set the done flag and the result was built from the
\* state as FILTER left it
C35_Witness ==
    /\ executed = <<"fetchPR", "filterFiles">>
    /\ state.completed /\ ~TruthyStr(state.error)
    /\ finalState = Some(state)
    /\ IsDefined(result) /\ result[1].success


\* the stage that sets each field of RunState
SetBy ==
    [prData        |-> {"fetchPR"},
     relevantFiles |-> {"filterFiles"},
     aiReview      |-> {"analyzeCode"},
     reviewComment |-> {"formatReview"},
     error         |-> WorkStages]

\* C36: RunState is populated monotonically: it starts with only the
\* PullRequestRef and done=false; owner, repository and number never change;
\* each of the fetched data, filtered list, structured review, report and
\* error, once set, is never changed or cleared for the rest of the run;
\* and each is set only by its own stage (the error by the work stage that
\* failed).
C36_MonotonePopulation ==
    [][/\ executed = <<>> =>
              state = initialState(state.owner, state.repo, state.pullNumber)
       /\ <<state'.owner, state'.repo, state'.pullNumber>> = PullRef
       /\ state.completed => state'.completed
       /\ \A f \in DOMAIN SetBy :
              /\ IsDefined(state[f]) => state'[f] = state[f]
              /\ state'[f] # state[f] =>
                     \E n \in SetBy[f] : executed' = Append(executed, n)]_vars

\* every field has been set, the error by a failed publication
C36_Witness ==
    /\ \A f \in DOMAIN SetBy : IsDefined(state[f])
    /\ executed = <<"fetchPR", "filterFiles", "analyzeCode", "formatReview",
                    "postReview">>
    /\ PullRef = <<Owner, Repo, PullNumber>>
    /\ IsDefined(result)


\* C37 as stated: whenever the pipeline reaches END the done flag of the
\* final state is true, on every path: normal publish, empty-filter
\* short-circuit, the ERROR path, and a failed comment creation in PUBLISH.
C37_AsStated == pc = "END" => state.completed

\* PUBLISH ended with an error
PublishErred ==
    executed # <<>> /\ LastExecuted = "postReview" /\ TruthyStr(state.error)

\* C37: when the pipeline reaches END the done flag is true after a normal
\* publish, after the empty-filter short-circuit and on the ERROR path; after
\* a failed comment creation in PUBLISH the run ends with the error set and
\* the done flag still false.
C37_DoneUnlessPublishFailed ==
    pc = "END" =>
        /\ state.completed <=> ~PublishErred
        /\ state.completed \/ TruthyStr(state.error)
        /\ PublishErred => PublishFailed

\* the run reached END after createReview failed, with the done flag false
C37_Witness ==
    /\ pc = "END"
    /\ PublishErred
    /\ ~state.completed
    /\ ~calls[Len(calls)].ok


\* the messages of the missing-data guards
GuardMessages ==
    {"PR data missing", "Missing data for analysis",
     "AI review data missing", "Review comment missing"}

\* C38: in every run of the compiled graph each stage starts with its
\* prerequisites present (FILTER has PR data, ANALYZE has a non-empty
\* filtered list and PR data, FORMAT has a structured review, PUBLISH has a
\* non-empty report), so the missing-data guards of the stages never fire.
C38_PrerequisitesPresent ==
    /\ pc = "filterFiles" => IsDefined(state.prData)
    /\ pc = "analyzeCode" =>
           /\ IsDefined(state.prData)
           /\ IsDefined(state.relevantFiles)
           /\ Len(state.relevantFiles[1]) > 0
    /\ pc = "formatReview" => IsDefined(state.aiReview)
    /\ pc = "postReview" =>
           /\ IsDefined(state.reviewComment)
           /\ state.reviewComment[1] # ""
    /\ IsDefined(state.error) => state.error[1] \notin GuardMessages

\* PUBLISH is about to start with the report, and every stage before it
\* started with what it needed
C38_Witness ==
    /\ pc = "postReview"
    /\ executed = <<"fetchPR", "filterFiles", "analyzeCode", "formatReview">>
    /\ IsDefined(state.reviewComment)
    /\ ~IsDefined(state.error)


\* a collaborator call of this operation has failed
Failed(op) == \E i \in 1..Len(calls) : calls[i].op = op /\ ~calls[i].ok

\* C39: a stage that produces an error writes nothing but the error: the
\* step that sets the error leaves every other field of RunState as it
\* was; when getPullRequest succeeds and listChangedFiles then fails the
\* fetched-data field stays unset, and when the completion call fails no
\* structured review is stored.
C39_ErrorWritesOnlyError ==
    [][/\ (~IsDefined(state.error) /\ IsDefined(state'.error)) =>
              state' = [state EXCEPT !.error = state'.error]
       /\ Failed("pulls.listFiles")' => ~IsDefined(state'.prData)
       /\ Failed("llm.invoke")' => ~IsDefined(state'.aiReview)]_vars

\* getPullRequest succeeded, listChangedFiles failed, and the run returned
\* with the fetched-data field unset
C39_Witness ==
    /\ Len(calls) = 2
    /\ calls[1].op = "pulls.get" /\ calls[1].ok
    /\ Failed("pulls.listFiles")
    /\ ~IsDefined(state.prData)
    /\ IsDefined(result) /\ ~result[1].success

====
